---- MODULE Spec2Model ----
(***************************************************************************)
(* A model of autogitter (arch-err/autogitter).                            *)
(*                                                                         *)
(* Part I   the parallel execution engine of internal/sync/sync.go:        *)
(*          cloneReposParallel / cloneWorker and pullReposParallel /       *)
(*          pullWorker (two copies of one worker pool, told apart by       *)
(*          `kind`).                                                       *)
(* Part II  reconciliation: the status list built by syncSource and by     *)
(*          ComputeSourceStatus from a source's repository list and the    *)
(*          scan of its local root.                                        *)
(* Part III the sync pass: runSync (cmd/ag/main.go), config.Load and       *)
(*          Validate, Run and syncSource with the orphan dispositions and  *)
(*          the call of the engine.                                        *)
(* Part IV  enumeration: fetchReposFromAPI and the ListRepos of the GitHub,*)
(*          Gitea and Bitbucket connectors, request by request.            *)
(* Part V   RunPull: the pull jobs collected over the sources.             *)
(* Part VI  config.Load with the sources.d directory, and Save.            *)
(* Part VII syncSource over entries with a local_path of their own.        *)
(* Part VIII the paging loops against a server that chooses its paging     *)
(*          fields freely.                                                 *)
(***************************************************************************)
EXTENDS Integers, Sequences, FiniteSets, TLC

(***************************************************************************)
(* Bounds of the model.                                                    *)
(***************************************************************************)
MaxJobs == 5
MaxRequested == 2
MaxLiveJobs == 3
MaxRepos == 3

(* sync.go:367-369 and 669-671: `if numWorkers <= 0 { numWorkers = 4 }`.   *)
DefaultWorkers == 4

Min(a, b) == IF a < b THEN a ELSE b

Kinds == {"clone", "pull"}
JobIds == 1..MaxJobs

VARIABLES
    (* ---- Part I: the engine ------------------------------------------ *)
    kind,          \* "clone": cloneReposParallel, "pull": pullReposParallel
    njobs,         \* len(repos) / len(jobs)
    requested,     \* the numWorkers argument (opts.Jobs)
    numWorkers,    \* the local numWorkers after the clamp
    epc,           \* position of the calling goroutine
    spawned,       \* loop counter i of the "Start workers" loop
    sent,          \* number of jobs already sent by the "Send jobs" loop
    jobsChan,      \* buffered channel jobs / jobsChan (job ids, FIFO)
    jobsClosed,    \* close(jobs) was executed
    results,       \* buffered channel results
    resultsClosed, \* number of times close(results) was executed
    wg,            \* the WaitGroup counter
    closer,        \* position of the anonymous goroutine wg.Wait(); close(results)
    idle,          \* number of worker goroutines blocked in `range jobs`
    running,       \* the jobs whose git call is in flight, one worker each
    exited,        \* number of worker goroutines that have returned
    takes,         \* per job: number of times it was received from the queue
    calls,         \* per job: number of git.Clone / git.Pull calls made for it
    opErr,         \* per job: what its own git call returned ("none" before)
    outcomes,      \* per job: number of its outcomes the collector received
    seen,          \* the set of outcomes the collector received
    cloned,        \* cloned / updated
    failed,        \* failed (pullReposParallel only; stays 0 for clone)
    errors,        \* the errors slice
    completed,     \* Progress.current: number of Increment calls
    proc,          \* "alive", or "killed" once an unhandled SIGINT ended the process
    (* ---- Part II: reconciliation -------------------------------------- *)
    via,           \* "diff": ComputeSourceStatus, "sync": Run + syncSource
    src,           \* the config.Source in memory
    src0,          \* the source as Load returned it
    remote,        \* the repository names the provider API lists for the owner
    disk,          \* the local root directory
    disk0,         \* the local root directory before the first computation
    statuses,      \* the status list of the first computation
    statuses2,     \* the status list of the second computation
    rerr,          \* the error the last computation returned ("none": nil)
    rpc,           \* number of computations made
    (* ---- Part III: the sync pass --------------------------------------- *)
    doc,           \* the sources of the configuration file when Load reads it
    cfg,           \* cfg.Sources in memory (<<>> until Load has returned)
    cfgFile,       \* the sources the configuration file holds now
    saves,         \* number of calls of cfg.Save
    opts,          \* the SyncOptions runSync builds from the flags
    roots,         \* per source: the directory at its local_path
    roots0,        \* roots when the run starts
    cur,           \* the loop index of Run (1-based)
    spc,           \* position of the main goroutine in runSync / Run / syncSource
    sts,           \* the statuses slice of the running syncSource call
    result,        \* per source: the SyncResult of its syncSource call
    total,         \* the SyncResult of Run
    outcome,       \* per source: how its iteration of Run ended ("pending" before)
    asked,         \* the prompts shown, with source, prompt and answer
    act,           \* per source: the orphan action executed ("none" before)
    rmTried,       \* <<source, name>> of every os.RemoveAll call
    rmOk,          \* <<source, name>> of every os.RemoveAll call that returned nil
    gone,          \* <<source, name>> of the directories someone else deleted
    cloneCalls,    \* <<source, name>> of every git.Clone call
    runErr,        \* the error runSync returns ("none": nil)
    (* ---- Part IV: enumeration ---------------------------------------- *)
    conn,          \* the connector of the source, Bitbucket told apart by host
    token,         \* connector.GetToken found a token for the connector type
    ownerKind,     \* what the owner of the source URL is on the server
    caller,        \* "Run" or "ComputeSourceStatus"
    fsrc,          \* the source: Strategy, Pattern and Repos
    server,        \* the owner's repositories on the server, in listing order
    fpc,           \* position of the resolution
    reqs,          \* the HTTP requests issued so far, with their answers
    endpoint,      \* the listing endpoint ListRepos chose
    page,          \* the page the next listing request asks for
    allRepos,      \* ListRepos: the names accumulated so far
    listed,        \* what ListRepos returned
    ferr,          \* the error of the resolution
    fout,          \* how the resolution of the source ended
    made,          \* connector.New was called
    \* Part V, RunPull
    pullCfg,       \* the local_path of every source of the configuration
    pullRoots,     \* what each local_path holds on disk
    pullI,         \* RunPull: index of the next source of the loop
    allJobs,       \* RunPull: the pull jobs collected so far
    pullPc,        \* position of RunPull
    \* Part VI, Load and Save
    mainFile,      \* the main configuration file
    sourcesD,      \* the sources.d directory next to it
    loadPc,        \* position of the load, save, load sequence
    loaded,        \* what the first Load returned
    saveErr,       \* the error of Save
    reloaded,      \* what the second Load returned
    \* Part VII, repository entries with a local_path of their own
    entrySrc,      \* the source: its local_path and its entries
    entryDisk,     \* what the local root holds
    entryElse,     \* the override paths that hold a repository
    entrySts,      \* the statuses syncSource built
    entryJobs,     \* the target paths of the clone jobs
    entryPc,       \* position of syncSource
    \* Part VIII, the paging loops against a server that chooses its paging
    \* fields freely
    pgConn,        \* the connector
    pgHeld,        \* how many repositories the server holds for the owner
    pgCursor,      \* the page number, next URL or start offset of the loop
    pgGot,         \* the positions of the server's list returned so far
    pgPc           \* position of ListRepos

engineVars == <<kind, njobs, requested, numWorkers, epc, spawned, sent, jobsChan,
                jobsClosed, results, resultsClosed, wg, closer, idle, running,
                exited, takes, calls, opErr, outcomes, seen, cloned, failed,
                errors, completed, proc>>

reconVars == <<via, src, src0, remote, disk, disk0, statuses, statuses2, rerr, rpc>>

syncVars == <<doc, cfg, cfgFile, saves, opts, roots, roots0, cur, spc, sts, result,
              total, outcome, asked, act, rmTried, rmOk, gone, cloneCalls, runErr>>

fetchVars == <<conn, token, ownerKind, caller, fsrc, server, fpc, reqs, endpoint,
               page, allRepos, listed, ferr, fout, made>>

pullVars == <<pullCfg, pullRoots, pullI, allJobs, pullPc>>

loadVars == <<mainFile, sourcesD, loadPc, loaded, saveErr, reloaded>>

entryVars == <<entrySrc, entryDisk, entryElse, entrySts, entryJobs, entryPc>>

pagingVars == <<pgConn, pgHeld, pgCursor, pgGot, pgPc>>

extraVars == <<pullVars, loadVars, entryVars, pagingVars>>

vars == <<engineVars, reconVars, syncVars, fetchVars, extraVars>>

(***************************************************************************)
(* Part I.  The engine.  cloneWorker and pullWorker take no identity, so   *)
(* the pool is kept as counts of idle and exited goroutines and the set of *)
(* jobs in flight.                                                         *)
(***************************************************************************)

(* ClampWorkers without the cap at the number of jobs.                     *)
ClampWorkersNoCap(req, n) ==
    IF req <= 0 THEN DefaultWorkers ELSE req

(* sync.go:366-374 / 668-676: the clamp of the worker count.               *)
ClampWorkers(req, n) ==
    LET w == IF req <= 0 THEN DefaultWorkers ELSE req
    IN  IF w > n THEN n ELSE w

(* cloneResult / pullResult.  `name` is the job's name; the model uses the *)
(* job's index as its name so that outcomes of equal-named jobs stay apart.*)
Result(j, ok) == [name |-> j, success |-> ok]

EngineInit ==
    /\ kind \in Kinds
    /\ njobs \in 0..MaxJobs
    /\ requested \in (-1)..MaxRequested
    /\ numWorkers = 0
    /\ epc = "entry"
    /\ spawned = 0
    /\ sent = 0
    /\ jobsChan = <<>>
    /\ jobsClosed = FALSE
    /\ results = <<>>
    /\ resultsClosed = 0
    /\ wg = 0
    /\ closer = "unstarted"
    /\ idle = 0
    /\ running = {}
    /\ exited = 0
    /\ takes = [j \in JobIds |-> 0]
    /\ calls = [j \in JobIds |-> 0]
    /\ opErr = [j \in JobIds |-> "none"]
    /\ outcomes = [j \in JobIds |-> 0]
    /\ seen = {}
    /\ cloned = 0
    /\ failed = 0
    /\ errors = <<>>
    /\ completed = 0
    /\ proc = "alive"

(* sync.go:367-380 / 669-682: clamp, make both channels, NewProgress.      *)
EngineEntry ==
    /\ proc = "alive"
    /\ epc = "entry"
    /\ numWorkers' = ClampWorkers(requested, njobs)
    /\ epc' = "spawn"
    /\ UNCHANGED <<kind, njobs, requested, spawned, sent, jobsChan, jobsClosed,
                   results, resultsClosed, wg, closer, idle, running, exited,
                   takes, calls, opErr, outcomes, seen, cloned, failed, errors,
                   completed, proc>>
    /\ UNCHANGED <<reconVars, syncVars, fetchVars, extraVars>>

(* sync.go:384-387 / 686-689: one iteration of the "Start workers" loop.   *)
SpawnWorker ==
    /\ proc = "alive"
    /\ epc = "spawn"
    /\ spawned < numWorkers
    /\ wg' = wg + 1
    /\ idle' = idle + 1
    /\ spawned' = spawned + 1
    /\ UNCHANGED <<kind, njobs, requested, numWorkers, epc, sent, jobsChan,
                   jobsClosed, results, resultsClosed, closer, running, exited,
                   takes, calls, opErr, outcomes, seen, cloned, failed, errors,
                   completed, proc>>
    /\ UNCHANGED <<reconVars, syncVars, fetchVars, extraVars>>

(* sync.go:390-392 / 692-694: one iteration of the "Send jobs" loop.  The  *)
(* send blocks while the channel holds cap = len(repos) elements.          *)
SendJob ==
    /\ proc = "alive"
    /\ epc = "spawn"
    /\ spawned = numWorkers
    /\ sent < njobs
    /\ Len(jobsChan) < njobs
    /\ jobsChan' = Append(jobsChan, sent + 1)
    /\ sent' = sent + 1
    /\ UNCHANGED <<kind, njobs, requested, numWorkers, epc, spawned, jobsClosed,
                   results, resultsClosed, wg, closer, idle, running, exited,
                   takes, calls, opErr, outcomes, seen, cloned, failed, errors,
                   completed, proc>>
    /\ UNCHANGED <<reconVars, syncVars, fetchVars, extraVars>>

(* sync.go:393-399 / 695-701: close(jobs), then start the goroutine that   *)
(* waits for the workers and closes results.                               *)
CloseJobs ==
    /\ proc = "alive"
    /\ epc = "spawn"
    /\ spawned = numWorkers
    /\ sent = njobs
    /\ jobsClosed' = TRUE
    /\ closer' = "waiting"
    /\ epc' = "collect"
    /\ UNCHANGED <<kind, njobs, requested, numWorkers, spawned, sent, jobsChan,
                   results, resultsClosed, wg, idle, running, exited, takes,
                   calls, opErr, outcomes, seen, cloned, failed, errors,
                   completed, proc>>
    /\ UNCHANGED <<reconVars, syncVars, fetchVars, extraVars>>

(* CloserClose by a goroutine that closes results without wg.Wait().       *)
CloserCloseNoWait ==
    /\ proc = "alive"
    /\ closer = "waiting"
    /\ resultsClosed' = resultsClosed + 1
    /\ closer' = "done"
    /\ UNCHANGED <<kind, njobs, requested, numWorkers, epc, spawned, sent,
                   jobsChan, jobsClosed, results, wg, idle, running, exited,
                   takes, calls, opErr, outcomes, seen, cloned, failed, errors,
                   completed, proc>>
    /\ UNCHANGED <<reconVars, syncVars, fetchVars, extraVars>>

(* sync.go:396-399 / 698-701: wg.Wait() returns when the counter is zero,  *)
(* then close(results).                                                    *)
CloserClose ==
    /\ proc = "alive"
    /\ closer = "waiting"
    /\ wg = 0
    /\ resultsClosed' = resultsClosed + 1
    /\ closer' = "done"
    /\ UNCHANGED <<kind, njobs, requested, numWorkers, epc, spawned, sent,
                   jobsChan, jobsClosed, results, wg, idle, running, exited,
                   takes, calls, opErr, outcomes, seen, cloned, failed, errors,
                   completed, proc>>
    /\ UNCHANGED <<reconVars, syncVars, fetchVars, extraVars>>

(* WorkerTake by a worker that survives the interrupt.                     *)
WorkerTakeAfterKill ==
    /\ idle > 0
    /\ jobsChan # <<>>
    /\ LET j == Head(jobsChan)
       IN  /\ jobsChan' = Tail(jobsChan)
           /\ running' = running \cup {j}
           /\ takes' = [takes EXCEPT ![j] = @ + 1]
           /\ calls' = [calls EXCEPT ![j] = @ + 1]
    /\ idle' = idle - 1
    /\ UNCHANGED <<kind, njobs, requested, numWorkers, epc, spawned, sent,
                   jobsClosed, results, resultsClosed, wg, closer, exited,
                   opErr, outcomes, seen, cloned, failed, errors, completed,
                   proc>>
    /\ UNCHANGED <<reconVars, syncVars, fetchVars, extraVars>>

(* sync.go:429-435 / 733-737: `for job := range jobs` hands the head of    *)
(* the queue to one waiting worker, which enters git.Clone / git.Pull.     *)
WorkerTake ==
    /\ proc = "alive"
    /\ idle > 0
    /\ jobsChan # <<>>
    /\ LET j == Head(jobsChan)
       IN  /\ jobsChan' = Tail(jobsChan)
           /\ running' = running \cup {j}
           /\ takes' = [takes EXCEPT ![j] = @ + 1]
           /\ calls' = [calls EXCEPT ![j] = @ + 1]
    /\ idle' = idle - 1
    /\ UNCHANGED <<kind, njobs, requested, numWorkers, epc, spawned, sent,
                   jobsClosed, results, resultsClosed, wg, closer, exited,
                   opErr, outcomes, seen, cloned, failed, errors, completed,
                   proc>>
    /\ UNCHANGED <<reconVars, syncVars, fetchVars, extraVars>>

(* WorkerFinish that sends an outcome only for a successful call.         *)
WorkerFinishDropFailed(j) ==
    /\ proc = "alive"
    /\ j \in running
    /\ Len(results) < njobs
    /\ \E err \in {"ok", "err"} :
          /\ opErr' = [opErr EXCEPT ![j] = err]
          /\ results' = IF err = "ok" THEN Append(results, Result(j, TRUE))
                                      ELSE results
    /\ running' = running \ {j}
    /\ idle' = idle + 1
    /\ UNCHANGED calls
    /\ UNCHANGED <<kind, njobs, requested, numWorkers, epc, spawned, sent,
                   jobsChan, jobsClosed, resultsClosed, wg, closer, exited,
                   takes, outcomes, seen, cloned, failed, errors,
                   completed, proc>>
    /\ UNCHANGED <<reconVars, syncVars, fetchVars, extraVars>>

(* WorkerFinish that reports success whatever the call returned.           *)
WorkerFinishAlwaysSuccess(j) ==
    /\ proc = "alive"
    /\ j \in running
    /\ Len(results) < njobs
    /\ \E err \in {"ok", "err"} :
          /\ opErr' = [opErr EXCEPT ![j] = err]
          /\ results' = Append(results, Result(j, TRUE))
    /\ running' = running \ {j}
    /\ idle' = idle + 1
    /\ UNCHANGED calls
    /\ UNCHANGED <<kind, njobs, requested, numWorkers, epc, spawned, sent,
                   jobsChan, jobsClosed, resultsClosed, wg, closer, exited,
                   takes, outcomes, seen, cloned, failed, errors,
                   completed, proc>>
    /\ UNCHANGED <<reconVars, syncVars, fetchVars, extraVars>>

(* WorkerFinish that makes a second call for a job whose first one failed. *)
WorkerFinishRetry(j) ==
    /\ proc = "alive"
    /\ j \in running
    /\ Len(results) < njobs
    /\ \E err \in {"ok", "err"} :
          IF err = "err" /\ calls[j] < 2
             THEN /\ calls' = [calls EXCEPT ![j] = @ + 1]
                  /\ UNCHANGED <<opErr, results, running, idle>>
             ELSE /\ opErr' = [opErr EXCEPT ![j] = err]
                  /\ results' = Append(results, Result(j, err = "ok"))
                  /\ running' = running \ {j}
                  /\ idle' = idle + 1
                  /\ UNCHANGED calls
    /\ UNCHANGED <<kind, njobs, requested, numWorkers, epc, spawned, sent,
                   jobsChan, jobsClosed, resultsClosed, wg, closer, exited,
                   takes, outcomes, seen, cloned, failed, errors,
                   completed, proc>>
    /\ UNCHANGED <<reconVars, syncVars, fetchVars, extraVars>>

(* sync.go:430-440 / 734-742: the git call of job j returns (with or       *)
(* without an error) and its worker sends the outcome; the send blocks     *)
(* while results holds cap = len(repos) elements.  The worker is then back *)
(* at the head of its range loop.                                          *)
WorkerFinish(j) ==
    /\ proc = "alive"
    /\ j \in running
    /\ Len(results) < njobs
    /\ \E err \in {"ok", "err"} :
          /\ opErr' = [opErr EXCEPT ![j] = err]
          /\ results' = Append(results, Result(j, err = "ok"))
    /\ running' = running \ {j}
    /\ idle' = idle + 1
    /\ UNCHANGED <<kind, njobs, requested, numWorkers, epc, spawned, sent,
                   jobsChan, jobsClosed, resultsClosed, wg, closer, exited,
                   takes, calls, outcomes, seen, cloned, failed, errors,
                   completed, proc>>
    /\ UNCHANGED <<reconVars, syncVars, fetchVars, extraVars>>

(* WorkerExit without the deferred wg.Done().                              *)
WorkerExitNoDone ==
    /\ proc = "alive"
    /\ idle > 0
    /\ jobsChan = <<>>
    /\ jobsClosed
    /\ idle' = idle - 1
    /\ exited' = exited + 1
    /\ UNCHANGED <<kind, njobs, requested, numWorkers, epc, spawned, sent,
                   jobsChan, jobsClosed, results, resultsClosed, closer,
                   running, takes, calls, opErr, outcomes, seen, cloned, failed,
                   errors, completed, proc, wg>>
    /\ UNCHANGED <<reconVars, syncVars, fetchVars, extraVars>>

(* sync.go:428-429,442 / 732-733,744: the range loop of a worker ends when *)
(* jobs is closed and drained; the deferred wg.Done() runs.                *)
WorkerExit ==
    /\ proc = "alive"
    /\ idle > 0
    /\ jobsChan = <<>>
    /\ jobsClosed
    /\ idle' = idle - 1
    /\ exited' = exited + 1
    /\ wg' = wg - 1
    /\ UNCHANGED <<kind, njobs, requested, numWorkers, epc, spawned, sent,
                   jobsChan, jobsClosed, results, resultsClosed, closer,
                   running, takes, calls, opErr, outcomes, seen, cloned, failed,
                   errors, completed, proc>>
    /\ UNCHANGED <<reconVars, syncVars, fetchVars, extraVars>>

(* Collect that signals progress for successful outcomes only.             *)
CollectSilentFailure ==
    /\ proc = "alive"
    /\ epc = "collect"
    /\ results # <<>>
    /\ LET res == Head(results)
       IN  /\ results' = Tail(results)
           /\ outcomes' = [outcomes EXCEPT ![res.name] = @ + 1]
           /\ seen' = seen \cup {res}
           /\ IF res.success
                 THEN /\ cloned' = cloned + 1
                      /\ completed' = completed + 1
                      /\ UNCHANGED <<failed, errors>>
                 ELSE /\ failed' = IF kind = "pull" THEN failed + 1 ELSE failed
                      /\ errors' = Append(errors, res)
                      /\ UNCHANGED <<cloned, completed>>
    /\ UNCHANGED <<kind, njobs, requested, numWorkers, epc, spawned, sent,
                   jobsChan, jobsClosed, resultsClosed, wg, closer, idle,
                   running, exited, takes, calls, opErr, proc>>
    /\ UNCHANGED <<reconVars, syncVars, fetchVars, extraVars>>

(* sync.go:404-411 / 707-715: one iteration of `for res := range results`. *)
Collect ==
    /\ proc = "alive"
    /\ epc = "collect"
    /\ results # <<>>
    /\ LET res == Head(results)
       IN  /\ results' = Tail(results)
           /\ outcomes' = [outcomes EXCEPT ![res.name] = @ + 1]
           /\ seen' = seen \cup {res}
           /\ completed' = completed + 1
           /\ IF res.success
                 THEN /\ cloned' = cloned + 1
                      /\ UNCHANGED <<failed, errors>>
                 ELSE /\ failed' = IF kind = "pull" THEN failed + 1 ELSE failed
                      /\ errors' = Append(errors, res)
                      /\ UNCHANGED cloned
    /\ UNCHANGED <<kind, njobs, requested, numWorkers, epc, spawned, sent,
                   jobsChan, jobsClosed, resultsClosed, wg, closer, idle,
                   running, exited, takes, calls, opErr, proc>>
    /\ UNCHANGED <<reconVars, syncVars, fetchVars, extraVars>>

(* EngineReturn that leaves the loop as soon as no outcome is waiting.      *)
EngineReturnEarly ==
    /\ proc = "alive"
    /\ epc = "collect"
    /\ results = <<>>
    /\ epc' = "returned"
    /\ UNCHANGED <<kind, njobs, requested, numWorkers, spawned, sent, jobsChan,
                   jobsClosed, results, resultsClosed, wg, closer, idle,
                   running, exited, takes, calls, opErr, outcomes, seen, cloned,
                   failed, errors, completed, proc>>
    /\ UNCHANGED <<reconVars, syncVars, fetchVars, extraVars>>

(* sync.go:404,414-424 / 707,718-728: the range loop ends when results is  *)
(* closed and drained; Finish, the error report and the return follow.     *)
EngineReturn ==
    /\ proc = "alive"
    /\ epc = "collect"
    /\ results = <<>>
    /\ resultsClosed > 0
    /\ epc' = "returned"
    /\ UNCHANGED <<kind, njobs, requested, numWorkers, spawned, sent, jobsChan,
                   jobsClosed, results, resultsClosed, wg, closer, idle,
                   running, exited, takes, calls, opErr, outcomes, seen, cloned,
                   failed, errors, completed, proc>>
    /\ UNCHANGED <<reconVars, syncVars, fetchVars, extraVars>>

EngineStep ==
    \/ EngineEntry
    \/ SpawnWorker
    \/ SendJob
    \/ CloseJobs
    \/ CloserClose
    \/ WorkerTake
    \/ \E j \in JobIds : WorkerFinish(j)
    \/ WorkerExit
    \/ Collect
    \/ EngineReturn

(* cmd/ag/main.go:24-28: main registers no signal handler and the engine   *)
(* takes no context or stop channel, so a SIGINT has the Go runtime's      *)
(* default effect: the process exits at once, with all its goroutines.     *)
Interrupt ==
    /\ proc = "alive"
    /\ epc \in {"spawn", "collect"}
    /\ proc' = "killed"
    /\ UNCHANGED <<kind, njobs, requested, numWorkers, epc, spawned, sent,
                   jobsChan, jobsClosed, results, resultsClosed, wg, closer,
                   idle, running, exited, takes, calls, opErr, outcomes, seen,
                   cloned, failed, errors, completed>>
    /\ UNCHANGED <<reconVars, syncVars, fetchVars, extraVars>>

(***************************************************************************)
(* Part II.  Reconciliation.                                               *)
(*                                                                         *)
(* A repository full name ("a/x") is the sequence of its "/"-separated     *)
(* segments (<<"a", "x">>); a name of a directory entry is a string.       *)
(***************************************************************************)

(* ui.DiffStatus: `StatusAdded DiffStatus = iota`, StatusRemoved,          *)
(* StatusUnchanged.                                                        *)
StatusAdded == 0
StatusRemoved == 1
StatusUnchanged == 2

FullNames == {<<"a", "x">>, <<"b", "x">>, <<"a", "y">>}

(* The names of the entries the local root may hold, in the order          *)
(* os.ReadDir lists them (sorted by file name).                            *)
ListingOrder == <<".h", "x", "y", "z">>

LocalNames == {ListingOrder[i] : i \in 1..Len(ListingOrder)}

(* strings.HasPrefix(entry.Name(), ".")                                    *)
HasDotPrefix(n) == n \in {".h"}

(* What a directory entry is: no entry, a regular file, a directory        *)
(* without .git, a directory with a .git directory.                        *)
EntryKinds == {"absent", "file", "plain", "repo"}

IsDir(k) == k \in {"plain", "repo"}

(* git.IsGitRepo: os.Stat(path/.git) succeeds and is a directory.          *)
IsGitRepo(k) == k = "repo"

NoEntries == [n \in LocalNames |-> "absent"]

(* The local roots of the model: an existing directory with at most one    *)
(* entry that is not a repository, a missing root, a root that cannot be   *)
(* read.                                                                   *)
Disks ==
    {[root |-> "ok", entries |-> e] :
        e \in {f \in [LocalNames -> EntryKinds] :
                  Cardinality({n \in LocalNames : f[n] \in {"file", "plain"}}) <= 1}}
    \cup {[root |-> "missing", entries |-> NoEntries],
          [root |-> "unreadable", entries |-> NoEntries]}

Strategies == {"manual", "all", "regex", "file"}

(* The patterns of the model: one that regexp.Compile rejects, one that    *)
(* matches the names of owner a, one that matches every name.              *)
Patterns == {"[", "^a/", ".*"}

(* regexp.Compile(pattern) returns no error.                               *)
Compiles(p) == p # "["

(* re.MatchString(repo) for a pattern that compiles.                       *)
MatchString(p, f) ==
    IF p = "^a/" THEN Len(f) >= 2 /\ f[1] = "a" ELSE TRUE

RepoLists == UNION {[1..n -> FullNames] : n \in 0..MaxRepos}

(* config.Source, with the fields reconciliation reads.                    *)
Sources ==
    {[Name |-> "s", Source |-> <<"host", "a">>, Strategy |-> st,
      LocalPath |-> "root", Repos |-> r, Pattern |-> p] :
        st \in Strategies, r \in RepoLists, p \in Patterns}

(* sync.go:471-477: strings.Split(fullName, "/") and its last part.        *)
repoNameFromFullName(fullName) == fullName[Len(fullName)]

(* filepath.Join(source.LocalPath, repoName) for a plain entry name.       *)
JoinPath(dir, name) == <<dir, name>>

(* The orders in which `range` may walk a map with key set S: Go leaves    *)
(* the iteration order of a map unspecified, and it differs between runs.  *)
Orderings(S) ==
    {q \in [1..Cardinality(S) -> S] : \A i, j \in 1..Cardinality(S) : q[i] = q[j] => i = j}

(* sync.go:444-469: scanLocalRepos.                                        *)
scanLocalRepos(d) ==
    IF d.root = "missing" THEN [repos |-> {}, err |-> "notexist"]
    ELSE IF d.root = "unreadable" THEN [repos |-> {}, err |-> "other"]
    ELSE [repos |-> {n \in LocalNames :
                        /\ IsDir(d.entries[n])
                        /\ ~HasDotPrefix(n)
                        /\ IsGitRepo(d.entries[n])},
          err |-> "none"]

(* sync.go:149-163: filterReposByRegex, for a pattern that compiles.       *)
filterReposByRegex(repos, pattern) ==
    SelectSeq(repos, LAMBDA f : MatchString(pattern, f))

(* What fetchReposFromAPI may return for the source: the listed names, or  *)
(* an error (no token, no owner, request failure).                         *)
FetchOutcomes(s) ==
    IF s.Strategy \in {"all", "regex"}
       THEN {[ok |-> TRUE, repos |-> remote], [ok |-> FALSE, repos |-> <<>>]}
       ELSE {[ok |-> TRUE, repos |-> <<>>]}

(* The strategy switch with a file case that resolves to the empty list.   *)
ResolveStrategyFileEmpty(s, fetched) ==
    CASE s.Strategy = "manual" -> [err |-> "none", Repos |-> s.Repos]
      [] s.Strategy = "all" ->
            IF ~fetched.ok THEN [err |-> "fetch", Repos |-> s.Repos]
            ELSE [err |-> "none", Repos |-> fetched.repos]
      [] s.Strategy = "regex" ->
            IF ~fetched.ok THEN [err |-> "fetch", Repos |-> s.Repos]
            ELSE IF ~Compiles(s.Pattern) THEN [err |-> "pattern", Repos |-> s.Repos]
            ELSE [err |-> "none", Repos |-> filterReposByRegex(fetched.repos, s.Pattern)]
      [] s.Strategy = "file" -> [err |-> "none", Repos |-> <<>>]
      [] OTHER -> [err |-> "unsupported", Repos |-> s.Repos]

(* sync.go:67-99 (Run) and 510-533 (ComputeSourceStatus): the strategy     *)
(* switch.  Repos is the value of source.Repos after it.                   *)
ResolveStrategy(s, fetched) ==
    CASE s.Strategy = "manual" -> [err |-> "none", Repos |-> s.Repos]
      [] s.Strategy = "all" ->
            IF ~fetched.ok THEN [err |-> "fetch", Repos |-> s.Repos]
            ELSE [err |-> "none", Repos |-> fetched.repos]
      [] s.Strategy = "regex" ->
            IF ~fetched.ok THEN [err |-> "fetch", Repos |-> s.Repos]
            ELSE IF ~Compiles(s.Pattern) THEN [err |-> "pattern", Repos |-> s.Repos]
            ELSE [err |-> "none", Repos |-> filterReposByRegex(fetched.repos, s.Pattern)]
      [] OTHER -> [err |-> "unsupported", Repos |-> s.Repos]

(* BuildStatuses whose second loop lacks the test of configuredRepos.      *)
BuildStatusesNoFilter(s, localRepos, iter) ==
    LET declared ==
            [i \in 1..Len(s.Repos) |->
                LET repoName == repoNameFromFullName(s.Repos[i])
                    exists == repoName \in localRepos
                IN  [Name |-> repoName, FullName |-> s.Repos[i],
                     LocalPath |-> JoinPath(s.LocalPath, repoName),
                     Status |-> IF exists THEN StatusUnchanged ELSE StatusAdded,
                     InConfig |-> TRUE, ExistsLocal |-> exists]]
        orphaned ==
            [k \in 1..Len(iter) |->
                [Name |-> iter[k], FullName |-> <<>>,
                 LocalPath |-> JoinPath(s.LocalPath, iter[k]),
                 Status |-> StatusRemoved, InConfig |-> FALSE, ExistsLocal |-> TRUE]]
    IN  declared \o orphaned

(* sync.go:190-239 (syncSource) and 535-584 (ComputeSourceStatus): the     *)
(* configuredRepos map and the status list.  iter is the order in which    *)
(* `for repoName := range localRepos` visits the map.                      *)
BuildStatuses(s, localRepos, iter) ==
    LET configuredRepos == {repoNameFromFullName(s.Repos[i]) : i \in 1..Len(s.Repos)}
        declared ==
            [i \in 1..Len(s.Repos) |->
                LET repoName == repoNameFromFullName(s.Repos[i])
                    exists == repoName \in localRepos
                IN  [Name |-> repoName, FullName |-> s.Repos[i],
                     LocalPath |-> JoinPath(s.LocalPath, repoName),
                     Status |-> IF exists THEN StatusUnchanged ELSE StatusAdded,
                     InConfig |-> TRUE, ExistsLocal |-> exists]]
        visited == SelectSeq(iter, LAMBDA n : n \notin configuredRepos)
        orphaned ==
            [k \in 1..Len(visited) |->
                [Name |-> visited[k], FullName |-> <<>>,
                 LocalPath |-> JoinPath(s.LocalPath, visited[k]),
                 Status |-> StatusRemoved, InConfig |-> FALSE, ExistsLocal |-> TRUE]]
    IN  declared \o orphaned

ReconInit ==
    /\ via \in {"diff", "sync"}
    /\ src \in {s \in Sources :
                  /\ s.Strategy = "manual" => s.Repos # <<>>
                  /\ s.Strategy # "manual" => s.Repos = <<>>
                  /\ s.Strategy # "regex" => s.Pattern = ".*"}
    /\ src0 = src
    /\ remote \in IF src.Strategy \in {"all", "regex"} THEN RepoLists ELSE {<<>>}
    /\ disk \in Disks
    /\ disk0 = disk
    /\ statuses = <<>>
    /\ statuses2 = <<>>
    /\ rerr = <<>>
    /\ rpc = 0

(* The reconciliation variables while the engine alone is studied.         *)
ReconIdle ==
    /\ via = "diff"
    /\ src = [Name |-> "s", Source |-> <<"host", "a">>, Strategy |-> "manual",
              LocalPath |-> "root", Repos |-> <<<<"a", "x">>>>, Pattern |-> ".*"]
    /\ src0 = src
    /\ remote = <<>>
    /\ disk = [root |-> "missing", entries |-> NoEntries]
    /\ disk0 = disk
    /\ statuses = <<>>
    /\ statuses2 = <<>>
    /\ rerr = <<>>
    /\ rpc = 0

(* The outcome of one computation is recorded as the first or the second.  *)
Record(newSrc, newDisk, err, out) ==
    /\ src' = newSrc
    /\ disk' = newDisk
    /\ rerr' = Append(rerr, err)
    /\ rpc' = rpc + 1
    /\ IF rpc = 0
          THEN statuses' = out /\ UNCHANGED statuses2
          ELSE statuses2' = out /\ UNCHANGED statuses
    /\ UNCHANGED <<via, src0, remote, disk0>>

(* sync.go:502-587: ComputeSourceStatus(source), as runDiff calls it.      *)
ComputeSourceStatus ==
    /\ via = "diff"
    /\ rpc < 2
    /\ \E fetched \in FetchOutcomes(src) :
          LET r == ResolveStrategy(src, fetched)
              resolved == [src EXCEPT !.Repos = r.Repos]
              scan == scanLocalRepos(disk)
          IN  IF r.err # "none"
                 THEN Record(src, disk, r.err, <<>>)
              ELSE IF scan.err = "other"
                 THEN Record(resolved, disk, "scan", <<>>)
              ELSE \E iter \in Orderings(scan.repos) :
                      Record(resolved, disk, "none",
                             BuildStatuses(resolved, scan.repos, iter))
    /\ UNCHANGED <<engineVars, syncVars, fetchVars, extraVars>>

(* sync.go:63-105 and 165-239: one source of Run, from the strategy switch *)
(* to the status list of syncSource.  A missing local root is reported     *)
(* (dry run), created (force, or the prompt confirmed), or the source is   *)
(* left (the prompt declined or failed).                                   *)
SyncSourceStatuses ==
    /\ via = "sync"
    /\ rpc < 2
    /\ \E fetched \in FetchOutcomes(src) :
          LET r == ResolveStrategy(src, fetched)
              resolved == [src EXCEPT !.Repos = r.Repos]
          IN  IF r.err # "none"
                 THEN Record(src, disk, r.err, <<>>)
              ELSE \E onMissing \in {"dryrun", "create", "decline", "prompterr"} :
                      LET created == [root |-> "ok", entries |-> NoEntries]
                          after == IF disk.root = "missing" /\ onMissing = "create"
                                      THEN created ELSE disk
                          scan == scanLocalRepos(after)
                      IN  IF disk.root = "missing" /\ onMissing = "prompterr"
                             THEN Record(resolved, disk, "prompt", <<>>)
                          ELSE IF disk.root = "missing" /\ onMissing = "decline"
                             THEN Record(resolved, disk, "declined", <<>>)
                          ELSE IF scan.err = "other"
                             THEN Record(resolved, after, "scan", <<>>)
                          ELSE \E iter \in Orderings(scan.repos) :
                                  Record(resolved, after, "none",
                                         BuildStatuses(resolved, scan.repos, iter))
    /\ UNCHANGED <<engineVars, syncVars, fetchVars, extraVars>>

(***************************************************************************)
(* Part III.  The sync pass.                                               *)
(*                                                                         *)
(* A path and the Source field ("host/g/a") are sequences of their         *)
(* "/"-separated segments; the empty string is the empty sequence.         *)
(***************************************************************************)

(* Bounds of the sync pass: the number of sources of the configuration and *)
(* the number of directories someone else deletes during the run.          *)
MaxSources == 2
MaxExternal == 1

(* sync.go:37-42: the zero SyncResult.                                     *)
ZeroResult == [Cloned |-> 0, Pruned |-> 0, Skipped |-> 0, Added |-> 0]

(* A well-formed manual source that declares one repository.               *)
Plain ==
    [Name |-> "s", Source |-> <<"host", "a">>, Strategy |-> "manual",
     LocalPath |-> <<"root">>, Repos |-> <<<<"a", "x">>>>, Pattern |-> "",
     Filename |-> ""]

(* The sources config.Validate accepts: manual sources of a one-segment    *)
(* and of a two-segment owner, one source of each other strategy, and a    *)
(* source whose local_path is a reference to an environment variable that  *)
(* is not set.                                                             *)
WellFormed ==
    {[Plain EXCEPT !.Source = o, !.Repos = r] :
        o \in {<<"host", "a">>, <<"host", "g", "a">>},
        r \in {<<<<"a", "x">>>>, <<<<"a", "x">>, <<"a", "y">>>>}}
    \cup {[Plain EXCEPT !.Strategy = "all", !.Repos = <<>>],
          [Plain EXCEPT !.Strategy = "regex", !.Repos = <<>>, !.Pattern = ".*"],
          [Plain EXCEPT !.Strategy = "file", !.Repos = <<>>, !.Filename = "repos.txt"],
          [Plain EXCEPT !.LocalPath = <<"$UNSET">>]}

(* Sources with one required field missing or malformed.                  *)
Malformed ==
    {[Plain EXCEPT !.Name = ""],
     [Plain EXCEPT !.Source = <<>>],
     [Plain EXCEPT !.LocalPath = <<>>],
     [Plain EXCEPT !.Strategy = ""],
     [Plain EXCEPT !.Strategy = "bogus"],
     [Plain EXCEPT !.Repos = <<>>],
     [Plain EXCEPT !.Strategy = "regex", !.Repos = <<>>],
     [Plain EXCEPT !.Strategy = "regex", !.Repos = <<>>, !.Pattern = "["],
     [Plain EXCEPT !.Strategy = "file", !.Repos = <<>>]}

FocalSources == WellFormed \cup Malformed

(* The names of the directories under "root", one for each source.        *)
DirNames == <<"d1", "d2", "d3", "d4", "d5", "d6", "d7", "d8", "d9">>

(* The i-th source of a configuration has a local_path of its own.         *)
WithPath(s, i) ==
    IF s.LocalPath = <<"root">>
       THEN [s EXCEPT !.LocalPath = <<"root", DirNames[i]>>] ELSE s

(* The environment of the process: HOME is set, UNSET is not.              *)
HomeDir == "home"

(* config.go:120-131: expandPath.  A leading "~" becomes the home          *)
(* directory; os.ExpandEnv replaces a reference to a variable that is not  *)
(* set by the empty string, so the segment disappears.                     *)
expandPath(path) ==
    LET home == IF path # <<>> /\ Head(path) = "~"
                   THEN <<HomeDir>> \o Tail(path) ELSE path
    IN  SelectSeq(home, LAMBDA seg : seg # "$UNSET")

(* config.go:111-118: ExpandPaths.                                         *)
ExpandPaths(c) ==
    [i \in 1..Len(c) |-> [c[i] EXCEPT !.LocalPath = expandPath(c[i].LocalPath)]]

(* An existing, empty local root.                                          *)
EmptyRoot == [root |-> "ok", entries |-> NoEntries]

(* The local roots of the sync pass: missing, unreadable, and three roots  *)
(* that hold repositories.                                                 *)
SyncDisks ==
    {[root |-> "missing", entries |-> NoEntries],
     [root |-> "unreadable", entries |-> NoEntries],
     [root |-> "ok", entries |-> [NoEntries EXCEPT !["x"] = "repo"]],
     [root |-> "ok", entries |-> [NoEntries EXCEPT !["x"] = "repo", !["z"] = "repo"]],
     [root |-> "ok", entries |-> [NoEntries EXCEPT !["y"] = "repo", !["z"] = "repo"]]}

(* What the provider API lists for the owner during the sync pass.         *)
SyncRemote == <<<<"a", "x">>>>

(* The values of --jobs of the model: 0 (the engine's default applies) and *)
(* 1 (one worker).                                                         *)
SyncJobs == {0, 1}

(* cmd/ag/main.go:142-149: the SyncOptions of runSync; ConfigPath is the   *)
(* path the configuration was loaded from.                                 *)
SyncOptionSets ==
    [Prune : BOOLEAN, Add : BOOLEAN, Force : BOOLEAN, DryRun : BOOLEAN,
     Jobs : SyncJobs, ConfigPath : {"cfg"}]

(* The error Validate finds in one source ("none": the source passes), as  *)
(* in CHANGELOG.md:353-394.  config.go:80-107 is the same function before  *)
(* the regex strategy that sync.go:79 reads was added: it lacks the regex  *)
(* case, where the pattern is required and regexp.Compile must accept it.  *)
SourceError(s) ==
    IF s.Name = "" THEN "name is required"
    ELSE IF s.Source = <<>> THEN "source URL is required"
    ELSE IF s.LocalPath = <<>> THEN "local_path is required"
    ELSE IF s.Strategy = "manual" /\ s.Repos = <<>> THEN "repos list is required"
    ELSE IF s.Strategy = "" THEN "strategy is required"
    ELSE IF s.Strategy \notin Strategies THEN "unknown strategy"
    ELSE IF s.Strategy = "file" /\ s.Filename = "" THEN "filename is required"
    ELSE IF s.Strategy = "regex" /\ s.Pattern = "" THEN "pattern is required"
    ELSE IF s.Strategy = "regex" /\ ~Compiles(s.Pattern) THEN "invalid regex pattern"
    ELSE "none"

(* Validate that reports no error for a source.                            *)
ValidateLenient(c) ==
    IF Len(c) = 0 THEN "no sources defined" ELSE "none"

(* config.go:74-109: Validate returns the error of the first source that   *)
(* has one.                                                                *)
Validate(c) ==
    IF Len(c) = 0 THEN "no sources defined"
    ELSE LET bad == {i \in 1..Len(c) : SourceError(c[i]) # "none"}
         IN  IF bad = {} THEN "none"
             ELSE SourceError(c[CHOOSE i \in bad : \A k \in bad : i <= k])

(* config.go:153-159: GetUserOrOrg, everything after the first "/".        *)
GetUserOrOrg(source) == IF Len(source) >= 2 THEN Tail(source) ELSE <<>>

(* sync.go:479-488: guessFullName, the last part of the split source and   *)
(* the name of the directory.                                              *)
guessFullName(source, repoName) ==
    IF Len(source) >= 2 THEN <<source[Len(source)], repoName>> ELSE <<repoName>>

(* A getOrphanedRepos that returns every status found on disk.             *)
getOrphanedReposAllLocal(st) == SelectSeq(st, LAMBDA r : r.ExistsLocal)

(* sync.go:490-498: getOrphanedRepos.                                      *)
getOrphanedRepos(st) == SelectSeq(st, LAMBDA r : r.Status = StatusRemoved)

(* sync.go:345-350: the toClone slice.                                     *)
toClone(st) == SelectSeq(st, LAMBDA r : r.Status = StatusAdded)

(* The prompt that chooses the action is shown when neither flag is set;   *)
(* ui.ConfirmAction returns one of three actions or an error.              *)
ActionAnswers(o) ==
    IF ~o.Prune /\ ~o.Add THEN {"prune", "add", "skip", "err"} ELSE {"none"}

(* An action choice that lets the add flag win over the prune flag.        *)
ChooseActionAddFirst(o, answer) ==
    IF o.Add THEN "add" ELSE IF o.Prune THEN "prune" ELSE answer

(* sync.go:283-294: the action of the orphan handler.                      *)
ChooseAction(o, answer) ==
    IF o.Prune THEN "prune" ELSE IF o.Add THEN "add" ELSE answer

(* A prune that never asks for the confirmation.                           *)
ConfirmAnswersNever(o) == {"none"}

(* sync.go:299-312: ui.ConfirmPrune is called unless force is set; it      *)
(* returns yes, no or an error.                                            *)
ConfirmAnswers(o) == IF ~o.Force THEN {"yes", "no", "err"} ELSE {"none"}

(* A prune that goes on after the confirmation was declined.               *)
PruneCancelledNever(confirm) == FALSE

(* sync.go:308-311: `if !confirm { ...; break }`.                          *)
PruneCancelled(confirm) == confirm = "no"

(* os.RemoveAll that fails on a path that does not exist.                  *)
RemoveAllStrict(k) == IF k = "absent" THEN {"err"} ELSE {"nil", "err"}

(* sync.go:316: what os.RemoveAll(repo.LocalPath) may return for an entry  *)
(* of kind k.  "If the path does not exist, RemoveAll returns nil".        *)
RemoveAll(k) == IF k = "absent" THEN {"nil"} ELSE {"nil", "err"}

(* The removal loop that ends at the first failure.                        *)
PruneLoopStopAtFailure(names, f) ==
    LET fails == {k \in 1..Len(names) : f[names[k]] = "err"}
        last == IF fails = {} THEN Len(names)
                ELSE CHOOSE k \in fails : \A m \in fails : k <= m
    IN  [tried |-> SubSeq(names, 1, last),
         ok |-> SelectSeq(SubSeq(names, 1, last), LAMBDA n : f[n] = "nil")]

(* sync.go:314-321: the removal loop over the orphans; f is what           *)
(* os.RemoveAll returns for each.  tried: the calls made, ok: the calls    *)
(* that returned nil (result.Pruned++).                                    *)
PruneLoop(names, f) ==
    [tried |-> names, ok |-> SelectSeq(names, LAMBDA n : f[n] = "nil")]

(* A dry run that clones all the same.                                     *)
MayCloneAlways(o) == TRUE

(* sync.go:352-360: the engine is called unless the run is a dry run.      *)
MayClone(o) == ~o.DryRun

Range(q) == {q[k] : k \in 1..Len(q)}

AddResults(a, b) ==
    [Cloned |-> a.Cloned + b.Cloned, Pruned |-> a.Pruned + b.Pruned,
     Skipped |-> a.Skipped + b.Skipped, Added |-> a.Added + b.Added]

(* The sync variables while another part is studied: runSync has returned. *)
SyncIdle ==
    /\ doc = <<>>
    /\ cfg = <<>>
    /\ cfgFile = <<>>
    /\ saves = 0
    /\ opts = [Prune |-> FALSE, Add |-> FALSE, Force |-> FALSE, DryRun |-> FALSE,
               Jobs |-> 0, ConfigPath |-> "cfg"]
    /\ roots = <<>>
    /\ roots0 = <<>>
    /\ cur = 1
    /\ spc = "exit"
    /\ sts = <<>>
    /\ result = <<>>
    /\ total = ZeroResult
    /\ outcome = <<>>
    /\ asked = {}
    /\ act = <<>>
    /\ rmTried = {}
    /\ rmOk = {}
    /\ gone = {}
    /\ cloneCalls = {}
    /\ runErr = "none"

(* The start of `ag sync`: a configuration file of up to MaxSources        *)
(* sources, one of them any source of the model over any local root, the   *)
(* others plain sources over an empty root; any flags.                     *)
SyncInit ==
    /\ \/ \E n \in 1..MaxSources, p \in 1..MaxSources, f \in FocalSources, d \in SyncDisks :
             /\ p <= n
             /\ expandPath(f.LocalPath) = <<>> => d.root = "missing"
             /\ doc = [i \in 1..n |-> WithPath(IF i = p THEN f ELSE Plain, i)]
             /\ roots = [i \in 1..n |-> IF i = p THEN d ELSE EmptyRoot]
       \/ /\ doc = <<>>
          /\ roots = <<>>
    /\ cfg = <<>>
    /\ cfgFile = doc
    /\ saves = 0
    /\ opts \in SyncOptionSets
    /\ roots0 = roots
    /\ cur = 1
    /\ spc = "load"
    /\ sts = [i \in 1..Len(doc) |-> <<>>]
    /\ result = [i \in 1..Len(doc) |-> ZeroResult]
    /\ total = ZeroResult
    /\ outcome = [i \in 1..Len(doc) |-> "pending"]
    /\ asked = {}
    /\ act = [i \in 1..Len(doc) |-> "none"]
    /\ rmTried = {}
    /\ rmOk = {}
    /\ gone = {}
    /\ cloneCalls = {}
    /\ runErr = "none"

(* The engine before syncSource calls it and after the call has returned.  *)
EngineNoCall ==
    /\ kind = "clone"
    /\ njobs = 0
    /\ requested = opts.Jobs
    /\ numWorkers = 0
    /\ epc = "nocall"
    /\ spawned = 0
    /\ sent = 0
    /\ jobsChan = <<>>
    /\ jobsClosed = FALSE
    /\ results = <<>>
    /\ resultsClosed = 0
    /\ wg = 0
    /\ closer = "unstarted"
    /\ idle = 0
    /\ running = {}
    /\ exited = 0
    /\ takes = [j \in JobIds |-> 0]
    /\ calls = [j \in JobIds |-> 0]
    /\ opErr = [j \in JobIds |-> "none"]
    /\ outcomes = [j \in JobIds |-> 0]
    /\ seen = {}
    /\ cloned = 0
    /\ failed = 0
    /\ errors = <<>>
    /\ completed = 0
    /\ proc = "alive"

(* The reconciliation variables during the sync pass: only the remote      *)
(* listing is read.                                                        *)
ReconForSync ==
    /\ via = "sync"
    /\ src = Plain
    /\ src0 = src
    /\ remote = SyncRemote
    /\ disk = EmptyRoot
    /\ disk0 = disk
    /\ statuses = <<>>
    /\ statuses2 = <<>>
    /\ rerr = <<>>
    /\ rpc = 2

(* Run that gives up at the first source that fails.                       *)
FailSourceAbort(why) ==
    /\ outcome' = [outcome EXCEPT ![cur] = why]
    /\ spc' = "exit"
    /\ runErr' = why
    /\ UNCHANGED <<result, total, cur>>

(* sync.go:72-75, 81-84, 87-90, 93-98, 101-105: the source failed; Run     *)
(* reports it and continues with the next source.                          *)
FailSource(why) ==
    /\ outcome' = [outcome EXCEPT ![cur] = why]
    /\ cur' = cur + 1
    /\ spc' = "run"
    /\ UNCHANGED <<result, total, runErr>>

(* sync.go:101,107-110: syncSource returned r and no error; Run adds its   *)
(* counts to the totals and continues.                                     *)
SourceDone(how, r) ==
    /\ outcome' = [outcome EXCEPT ![cur] = how]
    /\ result' = [result EXCEPT ![cur] = r]
    /\ total' = AddResults(total, r)
    /\ cur' = cur + 1
    /\ spc' = "run"
    /\ UNCHANGED runErr

(* syncSource goes on to position pc with result r.                        *)
Proceed(pc, r) ==
    /\ spc' = pc
    /\ result' = [result EXCEPT ![cur] = r]
    /\ UNCHANGED <<outcome, total, cur, runErr>>

(* cmd/ag/main.go:134-141 and config.go:54-72: runSync loads the           *)
(* configuration; Load fails when Validate reports an error, and runSync   *)
(* returns that error.  Load expands the paths after Validate has passed.  *)
LoadConfig ==
    /\ spc = "load"
    /\ IF Validate(doc) # "none"
          THEN /\ runErr' = "invalid config"
               /\ spc' = "exit"
               /\ UNCHANGED cfg
          ELSE /\ cfg' = ExpandPaths(doc)
               /\ spc' = "run"
               /\ UNCHANGED runErr
    /\ UNCHANGED <<doc, cfgFile, saves, opts, roots, roots0, cur, sts, result,
                   total, outcome, asked, act, rmTried, rmOk, gone, cloneCalls>>
    /\ UNCHANGED <<engineVars, reconVars, fetchVars, extraVars>>

(* sync.go:63-99: the head of one iteration of Run, the strategy switch.   *)
RunSource ==
    /\ spc = "run"
    /\ cur <= Len(cfg)
    /\ \E fetched \in FetchOutcomes(cfg[cur]) :
          LET r == ResolveStrategy(cfg[cur], fetched)
          IN  IF r.err # "none"
                 THEN /\ FailSource(r.err)
                      /\ UNCHANGED cfg
                 ELSE /\ cfg' = [cfg EXCEPT ![cur].Repos = r.Repos]
                      /\ Proceed("sync", result[cur])
    /\ UNCHANGED <<doc, cfgFile, saves, opts, roots, roots0, sts, asked, act,
                   rmTried, rmOk, gone, cloneCalls>>
    /\ UNCHANGED <<engineVars, reconVars, fetchVars, extraVars>>

(* sync.go:54-62,113: the loop of Run is over; Run returns the totals and  *)
(* no error, runSync prints the summary.                                   *)
RunReturn ==
    /\ spc = "run"
    /\ cur > Len(cfg)
    /\ spc' = "exit"
    /\ UNCHANGED <<doc, cfg, cfgFile, saves, opts, roots, roots0, cur, sts, result,
                   total, outcome, asked, act, rmTried, rmOk, gone, cloneCalls,
                   runErr>>
    /\ UNCHANGED <<engineVars, reconVars, fetchVars, extraVars>>

(* sync.go:165-256: syncSource from the check of local_path to the status  *)
(* list.  A missing root is reported (dry run), or created after the       *)
(* prompt unless force is set; os.MkdirAll may fail, and it fails for the  *)
(* empty path.                                                             *)
SyncSourceBegin ==
    /\ spc = "sync"
    /\ LET s == cfg[cur]
           d == roots[cur]
           missing == d.root = "missing"
           prompts == missing /\ ~opts.DryRun /\ ~opts.Force
       IN  \E answer \in (IF prompts THEN {"yes", "no", "err"} ELSE {"none"}) :
           \E mk \in (IF missing /\ ~opts.DryRun /\ answer \in {"yes", "none"}
                         THEN (IF s.LocalPath = <<>> THEN {"fail"} ELSE {"ok", "fail"})
                         ELSE {"none"}) :
              LET after == IF mk = "ok" THEN EmptyRoot ELSE d
                  scan == scanLocalRepos(after)
              IN  /\ asked' = IF prompts THEN asked \cup {<<cur, "createdir", answer>>}
                              ELSE asked
                  /\ roots' = [roots EXCEPT ![cur] = after]
                  /\ IF answer = "err"
                        THEN FailSource("prompt") /\ UNCHANGED sts
                     ELSE IF answer = "no"
                        THEN SourceDone("declined", result[cur]) /\ UNCHANGED sts
                     ELSE IF mk = "fail"
                        THEN FailSource("mkdir") /\ UNCHANGED sts
                     ELSE IF scan.err = "other"
                        THEN FailSource("scan") /\ UNCHANGED sts
                     ELSE \E iter \in Orderings(scan.repos) :
                             LET st == BuildStatuses(s, scan.repos, iter)
                             IN  /\ sts' = [sts EXCEPT ![cur] = st]
                                 /\ IF toClone(st) = <<>> /\ getOrphanedRepos(st) = <<>>
                                       THEN SourceDone("insync", result[cur])
                                    ELSE IF getOrphanedRepos(st) # <<>>
                                       THEN Proceed("orphans", result[cur])
                                    ELSE Proceed("clone", result[cur])
    /\ UNCHANGED <<doc, cfg, cfgFile, saves, opts, roots0, act, rmTried, rmOk, gone,
                   cloneCalls>>
    /\ UNCHANGED <<engineVars, reconVars, fetchVars, extraVars>>

(* Another process deletes the directory of an orphan after the scan and   *)
(* before the orphan handler acts.                                         *)
ExternalRemove ==
    /\ spc = "orphans"
    /\ Cardinality(gone) < MaxExternal
    /\ \E k \in 1..Len(getOrphanedRepos(sts[cur])) :
          LET n == getOrphanedRepos(sts[cur])[k].Name
          IN  /\ roots[cur].entries[n] # "absent"
              /\ roots' = [roots EXCEPT ![cur].entries[n] = "absent"]
              /\ gone' = gone \cup {<<cur, n>>}
    /\ UNCHANGED <<doc, cfg, cfgFile, saves, opts, roots0, cur, spc, sts, result,
                   total, outcome, asked, act, rmTried, rmOk, cloneCalls, runErr>>
    /\ UNCHANGED <<engineVars, reconVars, fetchVars, extraVars>>

(* sync.go:296-321: the prune action.  shown: the prompt already shown.    *)
PruneOrphans(names, shown) ==
    \E confirm \in ConfirmAnswers(opts) :
       /\ asked' = asked \cup shown \cup
                      (IF confirm = "none" THEN {} ELSE {<<cur, "prune", confirm>>})
       /\ UNCHANGED <<cfg, cfgFile, saves>>
       /\ IF confirm = "err"
             THEN /\ FailSource("prompt")
                  /\ UNCHANGED <<roots, rmTried, rmOk>>
          ELSE IF PruneCancelled(confirm)
             THEN /\ Proceed("clone", result[cur])
                  /\ UNCHANGED <<roots, rmTried, rmOk>>
          ELSE \E f \in [Range(names) -> {"nil", "err"}] :
                  /\ \A n \in Range(names) : f[n] \in RemoveAll(roots[cur].entries[n])
                  /\ LET p == PruneLoop(names, f)
                     IN  /\ roots' = [roots EXCEPT ![cur].entries =
                                        [n \in LocalNames |->
                                            IF n \in Range(p.ok) THEN "absent" ELSE @[n]]]
                         /\ rmTried' = rmTried \cup {<<cur, n>> : n \in Range(p.tried)}
                         /\ rmOk' = rmOk \cup {<<cur, n>> : n \in Range(p.ok)}
                         /\ Proceed("clone", [result[cur] EXCEPT !.Pruned = @ + Len(p.ok)])

(* sync.go:323-339 and config.go:176-193: the add action and the save of   *)
(* the whole configuration; a failure of Save is only reported.            *)
AddOrphans(s, names, shown) ==
    LET added == [k \in 1..Len(names) |-> guessFullName(s.Source, names[k])]
        newCfg == [cfg EXCEPT ![cur].Repos = @ \o added]
    IN  /\ asked' = asked \cup shown
        /\ cfg' = newCfg
        /\ IF opts.ConfigPath # ""
              THEN /\ saves' = saves + 1
                   /\ \E w \in {"ok", "fail"} :
                         cfgFile' = IF w = "ok" THEN newCfg ELSE cfgFile
              ELSE UNCHANGED <<saves, cfgFile>>
        /\ Proceed("clone", [result[cur] EXCEPT !.Added = @ + Len(names)])
        /\ UNCHANGED <<roots, rmTried, rmOk>>

(* sync.go:265-342: the orphan handler of syncSource.                      *)
HandleOrphans ==
    /\ spc = "orphans"
    /\ LET s == cfg[cur]
           orphaned == getOrphanedRepos(sts[cur])
           names == [k \in 1..Len(orphaned) |-> orphaned[k].Name]
       IN  IF opts.DryRun
              THEN /\ act' = [act EXCEPT ![cur] = "skip"]
                   /\ Proceed("clone", result[cur])
                   /\ UNCHANGED <<cfg, cfgFile, saves, roots, asked, rmTried, rmOk>>
              ELSE \E answer \in ActionAnswers(opts) :
                      LET action == ChooseAction(opts, answer)
                          shown == IF answer = "none" THEN {}
                                   ELSE {<<cur, "action", answer>>}
                      IN  /\ act' = [act EXCEPT ![cur] = action]
                          /\ CASE action = "err" ->
                                    /\ FailSource("prompt")
                                    /\ asked' = asked \cup shown
                                    /\ UNCHANGED <<cfg, cfgFile, saves, roots, rmTried, rmOk>>
                               [] action = "skip" ->
                                    /\ Proceed("clone", result[cur])
                                    /\ asked' = asked \cup shown
                                    /\ UNCHANGED <<cfg, cfgFile, saves, roots, rmTried, rmOk>>
                               [] action = "prune" -> PruneOrphans(names, shown)
                               [] action = "add" -> AddOrphans(s, names, shown)
    /\ UNCHANGED <<doc, opts, roots0, sts, gone, cloneCalls>>
    /\ UNCHANGED <<engineVars, reconVars, fetchVars, extraVars>>

(* sync.go:344-358: the toClone slice and the call of cloneReposParallel.  *)
CloneStep ==
    /\ spc = "clone"
    /\ LET tc == toClone(sts[cur])
       IN  IF tc = <<>> \/ ~MayClone(opts)
              THEN /\ SourceDone("synced", result[cur])
                   /\ UNCHANGED engineVars
              ELSE /\ Proceed("cloning", result[cur])
                   /\ kind' = "clone"
                   /\ njobs' = Len(tc)
                   /\ requested' = opts.Jobs
                   /\ epc' = "entry"
                   /\ UNCHANGED <<numWorkers, spawned, sent, jobsChan, jobsClosed,
                                  results, resultsClosed, wg, closer, idle, running,
                                  exited, takes, calls, opErr, outcomes, seen, cloned,
                                  failed, errors, completed, proc>>
    /\ UNCHANGED <<doc, cfg, cfgFile, saves, opts, roots, roots0, sts, asked, act,
                   rmTried, rmOk, gone, cloneCalls>>
    /\ UNCHANGED <<reconVars, fetchVars, extraVars>>

(* What cloneReposParallel leaves behind when syncSource has its count:    *)
(* a directory with a repository for every job whose git.Clone succeeded.  *)
CloneEffects ==
    LET tc == toClone(sts[cur])
        okNames == {tc[j].Name : j \in {i \in 1..njobs : opErr[i] = "ok"}}
        called == {tc[j].Name : j \in {i \in 1..njobs : calls[i] > 0}}
    IN  /\ roots' = [roots EXCEPT ![cur].entries =
                        [n \in LocalNames |-> IF n \in okNames THEN "repo" ELSE @[n]]]
        /\ cloneCalls' = cloneCalls \cup {<<cur, n>> : n \in called}
        /\ SourceDone("synced", [result[cur] EXCEPT !.Cloned = cloned])
        /\ UNCHANGED <<doc, cfg, cfgFile, saves, opts, roots0, sts, asked, act,
                       rmTried, rmOk, gone>>
        /\ UNCHANGED <<reconVars, fetchVars, extraVars>>

(* syncSource that takes the count of the engine without waiting for it.   *)
CloneReturnNoWait ==
    /\ spc = "cloning"
    /\ epc \in {"collect", "returned"}
    /\ CloneEffects
    /\ UNCHANGED engineVars

(* sync.go:358-363: cloneReposParallel has returned; result.Cloned is its  *)
(* count and syncSource returns.  The locals of the call are gone.         *)
CloneReturn ==
    /\ spc = "cloning"
    /\ epc = "returned"
    /\ CloneEffects
    /\ epc' = "nocall"
    /\ njobs' = 0
    /\ numWorkers' = 0
    /\ spawned' = 0
    /\ sent' = 0
    /\ jobsChan' = <<>>
    /\ jobsClosed' = FALSE
    /\ results' = <<>>
    /\ resultsClosed' = 0
    /\ wg' = 0
    /\ closer' = "unstarted"
    /\ idle' = 0
    /\ running' = {}
    /\ exited' = 0
    /\ takes' = [j \in JobIds |-> 0]
    /\ calls' = [j \in JobIds |-> 0]
    /\ opErr' = [j \in JobIds |-> "none"]
    /\ outcomes' = [j \in JobIds |-> 0]
    /\ seen' = {}
    /\ cloned' = 0
    /\ failed' = 0
    /\ errors' = <<>>
    /\ completed' = 0
    /\ UNCHANGED <<kind, requested, proc>>

SyncStep ==
    \/ LoadConfig
    \/ RunSource
    \/ SyncSourceBegin
    \/ ExternalRemove
    \/ HandleOrphans
    \/ CloneStep
    \/ CloneReturn
    \/ RunReturn

(***************************************************************************)
(* Part IV.  Enumeration.  The resolution of one source of strategy all or *)
(* regex: fetchReposFromAPI, the ListRepos of its connector with every     *)
(* HTTP request as a step, and the rest of the strategy switch of the      *)
(* caller.  The server holds the owner's repositories in listing order; a  *)
(* repository is named by its position in that list, and a page request    *)
(* for page k is answered with the k-th run of PerPage repositories.       *)
(***************************************************************************)

(* Bounds of the enumeration: the number of repositories the server holds  *)
(* for the owner, and the page size (per_page / limit / pagelen).          *)
MaxListed == 4
PerPage == 2

(* connector.New has three types; BitbucketConnector.ListRepos             *)
(* (bitbucket.go:125-130) splits the third by host.                        *)
Connectors == {"github", "gitea", "bbcloud", "bbserver"}

(* What the provider reports for a repository: syncable, or archived,      *)
(* empty or disabled.  Bitbucket Cloud has no such state.                  *)
Flags == {"ok", "archived"}

Servers(c) ==
    UNION {[1..n -> IF c = "bbcloud" THEN {"ok"} ELSE Flags] : n \in 0..MaxListed}

(* How a request is answered: by the server, truthfully; not at all (the   *)
(* transport fails); or with a status or body the client cannot use.       *)
Answers == {"ok", "transport", "status"}

(* The strategy, pattern and list of the source that is resolved.          *)
FetchSources ==
    {[Strategy |-> "all", Pattern |-> "", Repos |-> <<>>],
     [Strategy |-> "regex", Pattern |-> "[", Repos |-> <<>>],
     [Strategy |-> "regex", Pattern |-> ".*", Repos |-> <<>>]}

(* GetEnvVarName that names the GitHub variable for every connector type.  *)
GetEnvVarNameGitHub(c) == "GITHUB_TOKEN"

(* part_005:414-425: GetEnvVarName.                                        *)
GetEnvVarName(c) ==
    CASE c = "github" -> "GITHUB_TOKEN"
      [] c = "gitea" -> "GITEA_TOKEN"
      [] OTHER -> "BITBUCKET_TOKEN"

(* The server's answer to a request for page k: the positions of the k-th  *)
(* run of PerPage repositories (empty beyond the end of the list).         *)
PageOf(srv, k) ==
    LET first == (k - 1) * PerPage
        n == IF Len(srv) <= first THEN 0 ELSE Min(PerPage, Len(srv) - first)
    IN  [i \in 1..n |-> first + i]

(* The server has repositories after page k: GitHub sends a Link header    *)
(* with rel="next", Bitbucket Cloud a `next` URL, Bitbucket Server         *)
(* isLastPage = false.                                                     *)
HasMore(srv, k) == k * PerPage < Len(srv)

(* part_005:175-182 and gitea.go:179-186 drop the archived, disabled and   *)
(* empty repositories of a page; bitbucket.go:156-158 and 200-204 append   *)
(* every value of the page.                                                *)
KeptOfPage(c, srv, items) ==
    IF c \in {"github", "gitea"}
       THEN SelectSeq(items, LAMBDA i : srv[i] = "ok")
       ELSE items

(* The end of the paging loop after page k: gitea.go:117-119 breaks on a   *)
(* page whose kept names are none; part_005:123-125, bitbucket.go:137,159  *)
(* and 206-208 stop at the provider's last-page indicator.                 *)
LastPage(c, srv, k, kept) ==
    IF c = "gitea" THEN kept = <<>> ELSE ~HasMore(srv, k)

(* ListRepos that issues the listing requests at once.                     *)
DisambiguatesNever(c) == FALSE

(* part_005:99-103 (getUserType) and gitea.go:95-99 (isOrganization): the  *)
(* connectors whose ListRepos asks the server what the owner is.           *)
Disambiguates(c) == c \in {"github", "gitea"}

(* The listing endpoint of the Bitbucket connectors: bitbucket.go:135 (one *)
(* endpoint for every workspace) and 170-176 (a "~" prefix names a user,   *)
(* anything else a project key).                                           *)
BitbucketEndpoint(c, k) ==
    IF c = "bbcloud" THEN "workspace"
    ELSE IF k = "user" THEN "users" ELSE "projects"

NoError == [kind |-> "none", detail |-> ""]

NotCalled == [state |-> "notcalled", names |-> <<>>]

(* ListRepos that returns the names of the pages before the failure.       *)
ListFailurePartial(acc) == [state |-> "ok", names |-> acc]

(* part_005:116-119, gitea.go:112-115, bitbucket.go:138-153 and 182-197:   *)
(* `return nil, err` on a failing page request.                            *)
ListFailure(acc) == [state |-> "error", names |-> <<>>]

(* The enumeration variables while another part is studied.                *)
FetchIdle ==
    /\ conn = "github"
    /\ token = FALSE
    /\ ownerKind = "empty"
    /\ caller = "Run"
    /\ fsrc = [Strategy |-> "all", Pattern |-> "", Repos |-> <<>>]
    /\ server = <<>>
    /\ fpc = "idle"
    /\ reqs = <<>>
    /\ endpoint = ""
    /\ page = 1
    /\ allRepos = <<>>
    /\ listed = NotCalled
    /\ ferr = NoError
    /\ fout = "pending"
    /\ made = FALSE

(* Run or ComputeSourceStatus reaches the strategy switch with a source of *)
(* strategy all or regex: any connector, with or without a token, an owner *)
(* that is missing from the URL, a user, an organization or unknown to the *)
(* server, and any list of repositories on the server.                     *)
FetchInit ==
    /\ conn \in Connectors
    /\ token \in BOOLEAN
    /\ ownerKind \in {"empty", "user", "org", "unknown"}
    /\ caller \in {"Run", "ComputeSourceStatus"}
    /\ fsrc \in FetchSources
    /\ server \in Servers(conn)
    /\ ownerKind \notin {"user", "org"} => server = <<>>
    /\ fpc = "begin"
    /\ reqs = <<>>
    /\ endpoint = ""
    /\ page = 1
    /\ allRepos = <<>>
    /\ listed = NotCalled
    /\ ferr = NoError
    /\ fout = "pending"
    /\ made = FALSE

(* sync.go:71-92 and 513-528: fetchReposFromAPI has returned (l is what    *)
(* ListRepos returned, e the error); the caller filters the names of a     *)
(* regex source, stores the list, or gives the source up: Run warns and    *)
(* continues with the next source, ComputeSourceStatus returns the error.  *)
FetchReturn(l, e) ==
    LET r == ResolveStrategy(fsrc, [ok |-> e.kind = "none", repos |-> l.names])
    IN  /\ listed' = l
        /\ ferr' = IF e.kind # "none" THEN e
                   ELSE IF r.err # "none" THEN [kind |-> r.err, detail |-> fsrc.Pattern]
                   ELSE NoError
        /\ fsrc' = [fsrc EXCEPT !.Repos = r.Repos]
        /\ fout' = IF r.err = "none" THEN "resolved"
                   ELSE IF caller = "Run" THEN "skipped" ELSE "error"
        /\ fpc' = "done"

(* fetchReposFromAPI that compiles the pattern of a regex source before it *)
(* does anything else.                                                     *)
FetchBeginCompileFirst ==
    /\ fpc = "begin"
    /\ IF fsrc.Strategy = "regex" /\ ~Compiles(fsrc.Pattern)
          THEN /\ listed' = NotCalled
               /\ ferr' = [kind |-> "pattern", detail |-> fsrc.Pattern]
               /\ fout' = IF caller = "Run" THEN "skipped" ELSE "error"
               /\ fpc' = "done"
               /\ UNCHANGED <<fsrc, made, endpoint>>
       ELSE IF ~token
          THEN /\ FetchReturn(NotCalled, [kind |-> "notoken", detail |-> GetEnvVarName(conn)])
               /\ UNCHANGED <<made, endpoint>>
       ELSE IF ownerKind = "empty"
          THEN /\ FetchReturn(NotCalled, [kind |-> "noowner", detail |-> ""])
               /\ UNCHANGED <<made, endpoint>>
          ELSE /\ made' = TRUE
               /\ fpc' = IF Disambiguates(conn) THEN "disamb" ELSE "list"
               /\ endpoint' = IF Disambiguates(conn) THEN ""
                              ELSE BitbucketEndpoint(conn, ownerKind)
               /\ UNCHANGED <<fsrc, listed, ferr, fout>>
    /\ UNCHANGED <<conn, token, ownerKind, caller, server, reqs, page, allRepos>>
    /\ UNCHANGED <<engineVars, reconVars, syncVars, extraVars>>

(* sync.go:117-139: fetchReposFromAPI up to the call of ListRepos: the     *)
(* token of the connector type, the owner of the source URL, connector.New *)
(* (its error is that of an unknown type, which GetConnectorType never     *)
(* yields), and the entry of ListRepos.                                    *)
FetchBegin ==
    /\ fpc = "begin"
    /\ IF ~token
          THEN /\ FetchReturn(NotCalled, [kind |-> "notoken", detail |-> GetEnvVarName(conn)])
               /\ UNCHANGED <<made, endpoint>>
       ELSE IF ownerKind = "empty"
          THEN /\ FetchReturn(NotCalled, [kind |-> "noowner", detail |-> ""])
               /\ UNCHANGED <<made, endpoint>>
          ELSE /\ made' = TRUE
               /\ fpc' = IF Disambiguates(conn) THEN "disamb" ELSE "list"
               /\ endpoint' = IF Disambiguates(conn) THEN ""
                              ELSE BitbucketEndpoint(conn, ownerKind)
               /\ UNCHANGED <<fsrc, listed, ferr, fout>>
    /\ UNCHANGED <<conn, token, ownerKind, caller, server, reqs, page, allRepos>>
    /\ UNCHANGED <<engineVars, reconVars, syncVars, extraVars>>

(* What the client sees of a request for something that exists or not.     *)
Seen(ans, exists) == IF ans = "ok" /\ ~exists THEN "notfound" ELSE ans

(* part_005:133-155 (getUserType: one GET /users/{name}; 404 is not found, *)
(* any other failure an error) and gitea.go:129-159 (isOrganization: GET   *)
(* /orgs/{name}; on 404 GET /users/{name}, where 404 is not found, a       *)
(* transport failure an error and any other status a user).                *)
Disambiguate ==
    /\ fpc = "disamb"
    /\ \E ans \in Answers :
          LET ep == IF conn = "gitea" /\ reqs = <<>> THEN "orgs" ELSE "users"
              exists == IF conn = "github" THEN ownerKind \in {"user", "org"}
                        ELSE IF ep = "orgs" THEN ownerKind = "org"
                        ELSE ownerKind = "user"
              saw == Seen(ans, exists)
              fail(k) == /\ FetchReturn(ListFailure(<<>>), [kind |-> k, detail |-> ""])
                         /\ UNCHANGED endpoint
              list(e) == /\ fpc' = "list"
                         /\ endpoint' = e
                         /\ UNCHANGED <<fsrc, listed, ferr, fout>>
          IN  /\ reqs' = Append(reqs, [kind |-> "disamb", endpoint |-> ep,
                                       page |-> 0, answer |-> saw])
              /\ IF conn = "github"
                    THEN IF saw = "notfound" THEN fail("notfound")
                         ELSE IF saw # "ok" THEN fail("request")
                         ELSE list(IF ownerKind = "org" THEN "orgs" ELSE "users")
                 ELSE IF ep = "orgs"
                    THEN IF saw = "ok" THEN list("orgs")
                         ELSE IF saw = "notfound"
                            THEN /\ fpc' = "disamb"
                                 /\ UNCHANGED <<fsrc, listed, ferr, fout, endpoint>>
                         ELSE fail("request")
                    ELSE IF saw = "transport" THEN fail("request")
                         ELSE IF saw = "notfound" THEN fail("notfound")
                         ELSE list("users")
    /\ UNCHANGED <<conn, token, ownerKind, caller, server, page, allRepos, made>>
    /\ UNCHANGED <<engineVars, reconVars, syncVars, extraVars>>

(* One iteration of the paging loop: part_005:109-127 and 158-192,         *)
(* gitea.go:104-123 and 162-189, bitbucket.go:137-160 and 179-210.  The    *)
(* request for the page fails, or its kept names are appended and the loop *)
(* goes on or ends.                                                        *)
ListPage ==
    /\ fpc = "list"
    /\ \E ans \in Answers :
          LET saw == Seen(ans, ownerKind \in {"user", "org"})
              items == PageOf(server, page)
              kept == KeptOfPage(conn, server, items)
              acc == allRepos \o kept
          IN  /\ reqs' = Append(reqs, [kind |-> "list", endpoint |-> endpoint,
                                       page |-> page, answer |-> saw])
              /\ IF saw # "ok"
                    THEN /\ FetchReturn(ListFailure(allRepos),
                                        [kind |-> "request", detail |-> ""])
                         /\ UNCHANGED <<page, allRepos>>
                 ELSE IF LastPage(conn, server, page, kept)
                    THEN /\ FetchReturn([state |-> "ok", names |-> acc], NoError)
                         /\ allRepos' = acc
                         /\ UNCHANGED page
                    ELSE /\ allRepos' = acc
                         /\ page' = page + 1
                         /\ UNCHANGED <<fsrc, listed, ferr, fout, fpc>>
    /\ UNCHANGED <<conn, token, ownerKind, caller, server, endpoint, made>>
    /\ UNCHANGED <<engineVars, reconVars, syncVars, extraVars>>

FetchStep ==
    \/ FetchBegin
    \/ Disambiguate
    \/ ListPage

(***************************************************************************)
(* Part V.  RunPull, source by source, up to the call of the engine.       *)
(***************************************************************************)
MaxPullSources == 2

(* The directories a local_path of the configuration may name.  Validate   *)
(* does not compare the local_path of one source with that of another.     *)
PullDirs == {"d1", "d2"}

(* What such a directory may be: missing, unreadable, or a directory that  *)
(* holds repositories.                                                     *)
PullDisks ==
    {d \in Disks :
        \/ d.root # "ok"
        \/ /\ \A n \in LocalNames : d.entries[n] \in {"absent", "repo"}
           /\ d.entries[".h"] = "absent"
           /\ d.entries["z"] = "absent"}

(* RunPull is not running.                                                 *)
PullIdle ==
    /\ pullCfg = <<>>
    /\ pullRoots = <<>>
    /\ pullI = 1
    /\ allJobs = <<>>
    /\ pullPc = "idle"

(* sync.go:615-624: RunPull is called with a loaded configuration.         *)
PullInit ==
    /\ pullCfg \in UNION {[1..n -> PullDirs] : n \in 1..MaxPullSources}
    /\ pullRoots \in [PullDirs -> PullDisks]
    /\ pullI = 1
    /\ allJobs = <<>>
    /\ pullPc = "sources"

(* sync.go:645-652: one job for each repository of the scan, in the order  *)
(* the range over the map visits them.                                     *)
PullJobsOf(dir, iter) ==
    [k \in 1..Len(iter) |-> [path |-> JoinPath(dir, iter[k]), name |-> iter[k]]]

(* sync.go:626-653: one iteration of the loop over cfg.Sources.  A source  *)
(* whose local_path does not exist or cannot be scanned is skipped.        *)
RunPullSource ==
    /\ pullPc = "sources"
    /\ pullI <= Len(pullCfg)
    /\ LET dir == pullCfg[pullI]
           scan == scanLocalRepos(pullRoots[dir])
       IN  IF scan.err # "none"
              THEN UNCHANGED allJobs
              ELSE \E iter \in Orderings(scan.repos) :
                      allJobs' = allJobs \o PullJobsOf(dir, iter)
    /\ pullI' = pullI + 1
    /\ UNCHANGED <<pullCfg, pullRoots, pullPc>>
    /\ UNCHANGED <<engineVars, reconVars, syncVars, fetchVars, loadVars, entryVars,
                   pagingVars>>

(* sync.go:655-665: RunPull returns when there is no job, and otherwise    *)
(* hands the whole list to pullReposParallel as one batch.                 *)
RunPullBatch ==
    /\ pullPc = "sources"
    /\ pullI > Len(pullCfg)
    /\ pullPc' = IF allJobs = <<>> THEN "nothing" ELSE "batch"
    /\ UNCHANGED <<pullCfg, pullRoots, pullI, allJobs>>
    /\ UNCHANGED <<engineVars, reconVars, syncVars, fetchVars, loadVars, entryVars,
                   pagingVars>>

PullStep == RunPullSource \/ RunPullBatch

(***************************************************************************)
(* Part VI.  Load with the sources.d directory, and Save, for a local      *)
(* path; the code is the config package as printed in CHANGELOG.md.        *)
(***************************************************************************)
MaxDirFiles == 2

(* The sources a file may declare: two that Validate accepts, and one      *)
(* without a name.                                                         *)
LoadPool ==
    {[Plain EXCEPT !.Name = "s"], [Plain EXCEPT !.Name = "t"],
     [Plain EXCEPT !.Name = ""]}

(* A file: missing, unreadable, not YAML, or a YAML document with a list   *)
(* of sources.                                                             *)
NoFile == [st |-> "missing", sources |-> <<>>]

FileStates ==
    {[st |-> "unreadable", sources |-> <<>>], [st |-> "garbage", sources |-> <<>>]}
    \cup {[st |-> "yaml", sources |-> c] : c \in UNION {[1..n -> LoadPool] : n \in 0..1}}

(* An entry of sources.d, by the end of its name; os.ReadDir returns the   *)
(* entries sorted by name, which is the order of the sequence.             *)
DirEntries ==
    {[ext |-> x, file |-> f] : x \in {"yaml", "yml", "txt"}, f \in FileStates}
    \cup {[ext |-> "subdir", file |-> NoFile]}

SourcesDirs ==
    {[st |-> k, entries |-> <<>>] : k \in {"missing", "notdir", "unreadable"}}
    \cup {[st |-> "dir", entries |-> e] :
             e \in UNION {[1..n -> DirEntries] : n \in 0..MaxDirFiles}}

LoadOk(c) == [err |-> "none", Sources |-> c]

LoadErr(e) == [err |-> e, Sources |-> <<>>]

(* CHANGELOG.md:242-266: the loop of loadSourcesDir over the entries, acc  *)
(* being c.Sources so far.  Directories and names that end neither in      *)
(* .yaml nor in .yml are passed over; the first file that cannot be read   *)
(* or parsed ends the load.                                                *)
RECURSIVE MergeEntries(_, _)
MergeEntries(entries, acc) ==
    IF entries = <<>> THEN LoadOk(acc)
    ELSE LET e == Head(entries)
         IN  IF e.ext \notin {"yaml", "yml"} THEN MergeEntries(Tail(entries), acc)
             ELSE IF e.file.st = "unreadable" THEN LoadErr("failed to read file")
             ELSE IF e.file.st = "garbage" THEN LoadErr("failed to parse file")
             ELSE MergeEntries(Tail(entries), acc \o e.file.sources)

(* CHANGELOG.md:221-269: loadSourcesDir.                                   *)
loadSourcesDir(dir, acc) ==
    IF dir.st = "missing" THEN LoadOk(acc)
    ELSE IF dir.st = "unreadable" THEN LoadErr("failed to stat sources.d")
    ELSE IF dir.st = "notdir" THEN LoadErr("sources.d is not a directory")
    ELSE MergeEntries(dir.entries, acc)

(* CHANGELOG.md:188-202: the main file of a local path.  A file that does  *)
(* not exist leaves the configuration empty.                               *)
ReadMain(main) ==
    IF main.st = "missing" THEN LoadOk(<<>>)
    ELSE IF main.st = "unreadable" THEN LoadErr("failed to read config file")
    ELSE IF main.st = "garbage" THEN LoadErr("failed to parse config file")
    ELSE LoadOk(main.sources)

(* CHANGELOG.md:187-219: Load of a local path.                             *)
Load(main, dir) ==
    LET first == ReadMain(main)
    IN  IF first.err # "none" THEN first
        ELSE LET merged == loadSourcesDir(dir, first.Sources)
             IN  IF merged.err # "none" THEN LoadErr("failed to load sources.d")
                 ELSE IF Validate(merged.Sources) # "none" THEN LoadErr("invalid config")
                 ELSE LoadOk(ExpandPaths(merged.Sources))

(* Load and Save are not running.                                          *)
LoadIdle ==
    /\ mainFile = <<>>
    /\ sourcesD = <<>>
    /\ loadPc = "idle"
    /\ loaded = <<>>
    /\ saveErr = ""
    /\ reloaded = <<>>

LoadInit ==
    /\ mainFile \in FileStates \cup {NoFile}
    /\ sourcesD \in SourcesDirs
    /\ loadPc = "start"
    /\ loaded = LoadErr("")
    /\ saveErr = ""
    /\ reloaded = LoadErr("")

(* cmd/ag/main.go:120-132: loadConfig calls Load.                          *)
LoadFirst ==
    /\ loadPc = "start"
    /\ loaded' = Load(mainFile, sourcesD)
    /\ loadPc' = "loaded"
    /\ UNCHANGED <<mainFile, sourcesD, saveErr, reloaded>>
    /\ UNCHANGED <<engineVars, reconVars, syncVars, fetchVars, pullVars, entryVars,
                   pagingVars>>

(* CHANGELOG.md:489-505 and sync.go:332-339: Save marshals the whole       *)
(* configuration and writes it to the main file, or fails and leaves the   *)
(* file as it was.                                                         *)
SaveLoaded ==
    /\ loadPc = "loaded"
    /\ loaded.err = "none"
    /\ \E w \in {"ok", "fail"} :
          /\ saveErr' = IF w = "ok" THEN "none" ELSE "failed to write config file"
          /\ mainFile' = IF w = "ok" THEN [st |-> "yaml", sources |-> loaded.Sources]
                         ELSE mainFile
    /\ loadPc' = "saved"
    /\ UNCHANGED <<sourcesD, loaded, reloaded>>
    /\ UNCHANGED <<engineVars, reconVars, syncVars, fetchVars, pullVars, entryVars,
                   pagingVars>>

(* The next run of the program loads the same path.                        *)
LoadSecond ==
    /\ loadPc = "saved"
    /\ reloaded' = Load(mainFile, sourcesD)
    /\ loadPc' = "reloaded"
    /\ UNCHANGED <<mainFile, sourcesD, loaded, saveErr>>
    /\ UNCHANGED <<engineVars, reconVars, syncVars, fetchVars, pullVars, entryVars,
                   pagingVars>>

LoadStep == LoadFirst \/ SaveLoaded \/ LoadSecond

(***************************************************************************)
(* Part VII.  syncSource over entries that may carry a local_path of their *)
(* own (RepoEntry, CHANGELOG.md:64-70).                                    *)
(***************************************************************************)
MaxEntries == 2

(* The override paths of the model, outside the local root.                *)
OverridePaths == {<<"other", "w">>}

(* CHANGELOG.md:64-70: RepoEntry; an empty LocalPath is no override.       *)
RepoEntries ==
    [Name : {<<"a", "x">>, <<"a", "y">>}, LocalPath : {<<>>} \cup OverridePaths]

(* CHANGELOG.md:110-117: ResolvedLocalPath.                                *)
ResolvedLocalPath(r, sourceLocalPath) ==
    IF r.LocalPath # <<>> THEN r.LocalPath
    ELSE JoinPath(sourceLocalPath, repoNameFromFullName(r.Name))

(* The entries are not studied.                                            *)
EntryIdle ==
    /\ entrySrc = <<>>
    /\ entryDisk = <<>>
    /\ entryElse = {}
    /\ entrySts = <<>>
    /\ entryJobs = <<>>
    /\ entryPc = "idle"

EntryInit ==
    /\ entrySrc \in {[LocalPath |-> "root", Repos |-> r] :
                        r \in UNION {[1..n -> RepoEntries] : n \in 1..MaxEntries}}
    /\ entryDisk \in {d \in PullDisks : d.root = "ok"}
    /\ entryElse \in SUBSET OverridePaths
    /\ entrySts = <<>>
    /\ entryJobs = <<>>
    /\ entryPc = "statuses"

(* sync.go:190-239: the status list of syncSource.  The loop reads the     *)
(* full name of each entry and nothing else of it.                         *)
EntryStatuses ==
    /\ entryPc = "statuses"
    /\ LET names == [i \in 1..Len(entrySrc.Repos) |-> entrySrc.Repos[i].Name]
           scan == scanLocalRepos(entryDisk)
       IN  \E iter \in Orderings(scan.repos) :
              entrySts' = BuildStatuses([entrySrc EXCEPT !.Repos = names],
                                        scan.repos, iter)
    /\ entryPc' = "clone"
    /\ UNCHANGED <<entrySrc, entryDisk, entryElse, entryJobs>>
    /\ UNCHANGED <<engineVars, reconVars, syncVars, fetchVars, pullVars, loadVars,
                   pagingVars>>

(* sync.go:344-361 and 427-436: one clone job for each status to create;   *)
(* the worker clones into the LocalPath of the status.                     *)
EntryClone ==
    /\ entryPc = "clone"
    /\ LET tc == toClone(entrySts)
       IN  entryJobs' = [k \in 1..Len(tc) |-> tc[k].LocalPath]
    /\ entryPc' = "done"
    /\ UNCHANGED <<entrySrc, entryDisk, entryElse, entrySts>>
    /\ UNCHANGED <<engineVars, reconVars, syncVars, fetchVars, pullVars, loadVars,
                   pagingVars>>

EntryStep == EntryStatuses \/ EntryClone

(***************************************************************************)
(* Part VIII.  The paging loops of the four ListRepos against a server     *)
(* that answers every request, holds finitely many repositories, returns   *)
(* the repositories the request asks for, and puts what it likes into its  *)
(* paging fields.                                                          *)
(***************************************************************************)
MaxHeld == 3

(* Page numbers and start offsets from LastCursor on are beyond the end of *)
(* every list of the model, so the answer to all of them is the same empty *)
(* page and they are kept as one value.                                    *)
LastCursor == MaxHeld + 1

Advance(c) == Min(c + 1, LastCursor)

(* The `next` URL of Bitbucket Cloud that is the empty string.             *)
NoNext == 0

(* The positions of the list that the answer to a request holds: the page  *)
(* with that number, or for Bitbucket Server the run that begins after the *)
(* start offset.                                                           *)
Content(c, held, at) ==
    IF c = "bbserver"
       THEN {i \in 1..held : at < i /\ i <= at + PerPage}
       ELSE {i \in 1..held : (at - 1) * PerPage < i /\ i <= at * PerPage}

PagingIdle ==
    /\ pgConn = "github"
    /\ pgHeld = 0
    /\ pgCursor = 1
    /\ pgGot = {}
    /\ pgPc = "idle"

(* part_005:105-107, gitea.go:101-102, bitbucket.go:134-135 and 178: the   *)
(* first page, the first URL, the start offset 0.                          *)
PagingInit ==
    /\ pgConn \in Connectors
    /\ pgHeld \in 0..MaxHeld
    /\ pgCursor = IF pgConn = "bbserver" THEN 0 ELSE 1
    /\ pgGot = {}
    /\ pgPc = "loop"

(* part_005:109-127: one iteration of the loop of the GitHub connector.    *)
(* hasMore is what the Link header of the answer says.                     *)
ListReposGitHub ==
    /\ pgPc = "loop"
    /\ pgConn = "github"
    /\ pgGot' = pgGot \cup Content(pgConn, pgHeld, pgCursor)
    /\ \E hasMore \in BOOLEAN :
          IF ~hasMore
             THEN pgPc' = "done" /\ UNCHANGED pgCursor
             ELSE pgCursor' = Advance(pgCursor) /\ UNCHANGED pgPc
    /\ UNCHANGED <<pgConn, pgHeld>>
    /\ UNCHANGED <<engineVars, reconVars, syncVars, fetchVars, pullVars, loadVars,
                   entryVars>>

(* gitea.go:104-123: one iteration of the loop of the Gitea connector; it  *)
(* ends on a page without repositories.                                    *)
ListReposGitea ==
    /\ pgPc = "loop"
    /\ pgConn = "gitea"
    /\ LET pageRepos == Content(pgConn, pgHeld, pgCursor)
       IN  IF pageRepos = {}
              THEN pgPc' = "done" /\ UNCHANGED <<pgCursor, pgGot>>
              ELSE /\ pgGot' = pgGot \cup pageRepos
                   /\ pgCursor' = Advance(pgCursor)
                   /\ UNCHANGED pgPc
    /\ UNCHANGED <<pgConn, pgHeld>>
    /\ UNCHANGED <<engineVars, reconVars, syncVars, fetchVars, pullVars, loadVars,
                   entryVars>>

(* bitbucket.go:137-160: one iteration of listReposCloud; the next request *)
(* goes to the URL of the `next` field of the answer, and the loop ends    *)
(* when that field is empty.                                               *)
listReposCloud ==
    /\ pgPc = "loop"
    /\ pgConn = "bbcloud"
    /\ pgGot' = pgGot \cup Content(pgConn, pgHeld, pgCursor)
    /\ \E next \in {NoNext} \cup 1..LastCursor :
          /\ pgCursor' = next
          /\ pgPc' = IF next = NoNext THEN "done" ELSE "loop"
    /\ UNCHANGED <<pgConn, pgHeld>>
    /\ UNCHANGED <<engineVars, reconVars, syncVars, fetchVars, pullVars, loadVars,
                   entryVars>>

(* bitbucket.go:179-210: one iteration of listReposServer; the loop ends   *)
(* when the answer says isLastPage, and otherwise goes on at the           *)
(* nextPageStart of the answer.                                            *)
listReposServer ==
    /\ pgPc = "loop"
    /\ pgConn = "bbserver"
    /\ pgGot' = pgGot \cup Content(pgConn, pgHeld, pgCursor)
    /\ \E isLastPage \in BOOLEAN, nextPageStart \in 0..LastCursor :
          IF isLastPage
             THEN pgPc' = "done" /\ UNCHANGED pgCursor
             ELSE pgCursor' = nextPageStart /\ UNCHANGED pgPc
    /\ UNCHANGED <<pgConn, pgHeld>>
    /\ UNCHANGED <<engineVars, reconVars, syncVars, fetchVars, pullVars, loadVars,
                   entryVars>>

PagingStep == ListReposGitHub \/ ListReposGitea \/ listReposCloud \/ listReposServer

(* The variables of Parts V to VIII while another part is studied.         *)
ExtraIdle == PullIdle /\ LoadIdle /\ EntryIdle /\ PagingIdle

(* The engine variables while reconciliation alone is studied.             *)
EngineIdle == EngineInit /\ kind = "clone" /\ njobs = 0 /\ requested = 0

Init == EngineInit /\ ReconIdle /\ SyncIdle /\ FetchIdle /\ ExtraIdle

Next == EngineStep

(* One call of cloneReposParallel / pullReposParallel, left undisturbed.   *)
Spec == Init /\ [][Next]_vars

(* The same call under a fair scheduler, every git call returning.         *)
FairInit == Init /\ njobs <= MaxLiveJobs

FairSpec ==
    /\ FairInit
    /\ [][Next]_vars
    /\ WF_vars(EngineEntry)
    /\ WF_vars(SpawnWorker)
    /\ WF_vars(SendJob)
    /\ WF_vars(CloseJobs)
    /\ WF_vars(CloserClose)
    /\ WF_vars(WorkerTake)
    /\ \A j \in JobIds : WF_vars(WorkerFinish(j))
    /\ WF_vars(WorkerExit)
    /\ WF_vars(Collect)
    /\ WF_vars(EngineReturn)

(* The same call with a SIGINT that may arrive while the batch executes.   *)
NextSigint == Next \/ Interrupt

SpecSigint == Init /\ [][NextSigint]_vars

(* Reconciliation of one source, computed up to twice over the same local  *)
(* root and the same remote listing.                                       *)
InitReconcile == EngineIdle /\ ReconInit /\ SyncIdle /\ FetchIdle /\ ExtraIdle

NextReconcile == ComputeSourceStatus \/ SyncSourceStatuses

SpecReconcile == InitReconcile /\ [][NextReconcile]_vars

(* One run of `ag sync`: the sync pass with the engine it calls.           *)
InitSync == SyncInit /\ EngineNoCall /\ ReconForSync /\ FetchIdle /\ ExtraIdle

NextSync == SyncStep \/ EngineStep

SpecSync == InitSync /\ [][NextSync]_vars

(* The resolution of one source of strategy all or regex.                  *)
InitFetch == EngineIdle /\ ReconIdle /\ SyncIdle /\ FetchInit /\ ExtraIdle

NextFetch == FetchStep

SpecFetch == InitFetch /\ [][NextFetch]_vars

(* RunPull over a configuration whose sources may share a local_path.      *)
InitPull == EngineIdle /\ ReconIdle /\ SyncIdle /\ FetchIdle /\ PullInit /\ LoadIdle /\ EntryIdle
            /\ PagingIdle

NextPull == PullStep

SpecPull == InitPull /\ [][NextPull]_vars

(* Load, Save and Load again over one main file and one sources.d.         *)
InitLoad == EngineIdle /\ ReconIdle /\ SyncIdle /\ FetchIdle /\ PullIdle /\ LoadInit /\ EntryIdle
            /\ PagingIdle

NextLoad == LoadStep

SpecLoad == InitLoad /\ [][NextLoad]_vars

(* The statuses and the clone jobs of one source with such entries.        *)
InitEntries ==
    EngineIdle /\ ReconIdle /\ SyncIdle /\ FetchIdle /\ PullIdle /\ LoadIdle /\ EntryInit
    /\ PagingIdle

NextEntries == EntryStep

SpecEntries == InitEntries /\ [][NextEntries]_vars

(* One ListRepos against such a server, the client taking its steps.       *)
InitPaging ==
    EngineIdle /\ ReconIdle /\ SyncIdle /\ FetchIdle /\ PullIdle /\ LoadIdle /\ EntryIdle
    /\ PagingInit

NextPaging == PagingStep

SpecPaging == InitPaging /\ [][NextPaging]_vars /\ WF_vars(NextPaging)

(***************************************************************************)
(* Claims about the engine.                                                *)
(***************************************************************************)
Submitted == 1..njobs

RequestedOrDefault == IF requested > 0 THEN requested ELSE 4

InFlight == Cardinality(running)

Succeeded == {j \in Submitted : opErr[j] = "ok"}

(* C1: when cloneReposParallel / pullReposParallel returns, the collector  *)
(* has received exactly N outcomes, exactly one for each submitted job;    *)
(* at no time has it received two for the same job or one for a job that   *)
(* was not submitted.                                                      *)
C1_ExactlyOneOutcomePerJob ==
    /\ \A j \in JobIds : outcomes[j] <= 1
    /\ \A j \in JobIds \ Submitted : outcomes[j] = 0
    /\ epc = "returned" =>
          /\ completed = njobs
          /\ \A j \in Submitted : outcomes[j] = 1

C1_Witness ==
    /\ epc = "returned"
    /\ njobs >= 3
    /\ errors # <<>>
    /\ cloned > 0
    /\ \A j \in Submitted : outcomes[j] = 1

(* C2: outcomes are independent.  The success flag of every outcome is     *)
(* true exactly when that job's own git call returned no error; at the     *)
(* return every submitted job was executed whatever the others did, the    *)
(* count returned equals the number of jobs whose own call succeeded, and  *)
(* for pullReposParallel updated + failed = N.                             *)
C2_IndependentOutcomes ==
    /\ \A r \in seen : r.success = (opErr[r.name] = "ok")
    /\ \A i \in 1..Len(results) :
          results[i].success = (opErr[results[i].name] = "ok")
    /\ epc = "returned" =>
          /\ \A j \in Submitted : opErr[j] # "none"
          /\ cloned = Cardinality(Succeeded)
          /\ Len(errors) = njobs - Cardinality(Succeeded)
          /\ kind = "pull" => cloned + failed = njobs

C2_Witness ==
    /\ epc = "returned"
    /\ kind = "pull"
    /\ opErr[1] = "err"
    /\ njobs >= 3
    /\ opErr[2] = "ok"
    /\ opErr[3] = "ok"
    /\ cloned = njobs - 1
    /\ failed = 1

(* C3: every submitted job is received from the queue by exactly one       *)
(* worker and has exactly one git call made for it: never two, also after  *)
(* a failure, and never zero once the engine has returned.                 *)
C3_OneCallPerJob ==
    /\ \A j \in JobIds : takes[j] <= 1 /\ calls[j] <= 1
    /\ \A j \in JobIds \ Submitted : takes[j] = 0 /\ calls[j] = 0
    /\ \A j \in JobIds : opErr[j] # "none" => calls[j] = 1
    /\ epc = "returned" => \A j \in Submitted : takes[j] = 1 /\ calls[j] = 1

C3_Witness ==
    /\ epc = "returned"
    /\ njobs >= 2
    /\ opErr[1] = "err"
    /\ calls[1] = 1
    /\ takes[2] = 1

(* C4: under a fair scheduler and with every git call returning, the call  *)
(* returns for every N >= 0 and every requested worker count, with all     *)
(* workers exited, results closed and drained; and whenever a job is in    *)
(* flight while a worker is waiting and a job is queued, that worker can   *)
(* take the queued job.                                                    *)
C4_Terminates ==
    /\ <>(/\ epc = "returned"
          /\ exited = numWorkers
          /\ idle = 0
          /\ running = {}
          /\ resultsClosed = 1
          /\ results = <<>>)
    /\ []((running # {} /\ idle > 0 /\ jobsChan # <<>>) => ENABLED WorkerTake)

C4_Witness ==
    /\ running # {}
    /\ idle > 0
    /\ jobsChan # <<>>
    /\ njobs = MaxLiveJobs

(* C5: the number of workers started is min(W', N), W' being the requested *)
(* count when positive and 4 otherwise, and never more than min(W', N) git *)
(* calls are in flight.                                                    *)
C5_WorkerClamp ==
    /\ epc # "entry" => numWorkers = Min(RequestedOrDefault, njobs)
    /\ spawned <= Min(RequestedOrDefault, njobs)
    /\ idle + InFlight + exited = spawned
    /\ InFlight <= Min(RequestedOrDefault, njobs)
    /\ epc \in {"collect", "returned"} => spawned = Min(RequestedOrDefault, njobs)

C5_Witness ==
    /\ requested <= 0
    /\ njobs > 4
    /\ InFlight = 4
    /\ spawned = 4

(* C6 as stated: once a stop signal has ended the run, every job that was  *)
(* in flight has finished and yielded its outcome.                         *)
C6_InFlightJobsFinish ==
    proc = "killed" => \A j \in JobIds : takes[j] > 0 => outcomes[j] = 1

(* C6 as amended: the engine has no cooperative stop signal.  An interrupt *)
(* is not handled and ends the process at once: no job is started after    *)
(* it, and the jobs in flight at that instant never yield an outcome.      *)
C6_InterruptKills ==
    [][proc = "killed" =>
          /\ proc' = "killed"
          /\ UNCHANGED <<takes, calls, running, jobsChan, results, outcomes,
                         seen, completed, cloned, failed, errors, epc>>]_vars

C6_Witness ==
    /\ proc = "killed"
    /\ running # {}
    /\ jobsChan # <<>>
    /\ \E j \in running : outcomes[j] = 0

(***************************************************************************)
(* Claims about reconciliation.                                            *)
(***************************************************************************)
Out(k) == IF k = 1 THEN statuses ELSE statuses2

Computed(k) == k <= rpc /\ rerr[k] = "none"

DeclaredNames == {repoNameFromFullName(src.Repos[i]) : i \in 1..Len(src.Repos)}

LocalSet == scanLocalRepos(disk).repos

NamesOf(out) == {out[i].Name : i \in 1..Len(out)}

NamesWith(out, st) == {out[i].Name : i \in {n \in 1..Len(out) : out[n].Status = st}}

Classified(out) ==
    /\ \A i \in 1..Len(out) :
          LET st == out[i]
          IN  /\ st.Name \in DeclaredNames \cap LocalSet =>
                    st.Status = StatusUnchanged /\ st.InConfig /\ st.ExistsLocal
              /\ st.Name \in DeclaredNames \ LocalSet =>
                    st.Status = StatusAdded /\ st.InConfig /\ ~st.ExistsLocal
              /\ st.Name \in LocalSet \ DeclaredNames =>
                    st.Status = StatusRemoved /\ ~st.InConfig /\ st.ExistsLocal
    /\ NamesOf(out) = DeclaredNames \cup LocalSet
    /\ NamesWith(out, StatusUnchanged) \cap NamesWith(out, StatusAdded) = {}
    /\ NamesWith(out, StatusUnchanged) \cap NamesWith(out, StatusRemoved) = {}
    /\ NamesWith(out, StatusAdded) \cap NamesWith(out, StatusRemoved) = {}

(* C7: in the status list of syncSource and of ComputeSourceStatus a       *)
(* basename that is declared and local is unchanged, one that is only      *)
(* declared is to-create (StatusAdded), one that is only local is orphaned *)
(* (StatusRemoved); InConfig and ExistsLocal agree with the class, the     *)
(* three classes are pairwise disjoint and cover exactly the union of the  *)
(* declared and the local basenames.                                       *)
C7_Partition ==
    \A k \in 1..2 : Computed(k) => Classified(Out(k))

C7_Witness ==
    /\ Computed(1)
    /\ src.Repos = <<<<"a", "x">>, <<"a", "y">>>>
    /\ LocalSet = {"x", "z"}
    /\ Len(statuses) = 3
    /\ statuses[1].Name = "x" /\ statuses[1].Status = StatusUnchanged
    /\ statuses[2].Name = "y" /\ statuses[2].Status = StatusAdded
    /\ statuses[3].Name = "z" /\ statuses[3].Status = StatusRemoved

(* C8: the status list holds no two statuses with the same basename, and   *)
(* its length is |declared| + |local \ declared|, also for a declared list *)
(* that repeats a full name or holds two full names with one basename.     *)
C8_NoDuplicateBasenames ==
    \A k \in 1..2 : Computed(k) =>
        /\ Len(Out(k)) = Len(src.Repos) + Cardinality(LocalSet \ DeclaredNames)
        /\ \A i, j \in 1..Len(Out(k)) : Out(k)[i].Name = Out(k)[j].Name => i = j

(* C9: the order of the status list is deterministic: the declared entries *)
(* come first in source order, the orphans follow in directory-listing     *)
(* order, and two computations over the same inputs give the same          *)
(* sequence.                                                               *)
C9_DeterministicOrder ==
    /\ \A k \in 1..2 : Computed(k) =>
          /\ Len(Out(k)) >= Len(src.Repos)
          /\ \A i \in 1..Len(src.Repos) : Out(k)[i].FullName = src.Repos[i]
          /\ [i \in 1..(Len(Out(k)) - Len(src.Repos)) |->
                 Out(k)[Len(src.Repos) + i].Name]
             = SelectSeq(ListingOrder, LAMBDA n : n \in LocalSet \ DeclaredNames)
    /\ Computed(1) /\ Computed(2) => statuses = statuses2

(* C10: ComputeSourceStatus performs no action: it leaves the local root   *)
(* and every field of the source (its Repos list included) as they were,   *)
(* and two computations over unchanged inputs yield the same set of        *)
(* statuses.                                                               *)
C10_NoSideEffects ==
    via = "diff" =>
        /\ src = src0
        /\ disk = disk0
        /\ Computed(1) /\ Computed(2) =>
              {statuses[i] : i \in 1..Len(statuses)}
              = {statuses2[i] : i \in 1..Len(statuses2)}

(***************************************************************************)
(* Claims about the sync pass.                                             *)
(***************************************************************************)
SrcIdx == 1..Len(doc)

OrphanSeq(i) ==
    LET o == getOrphanedRepos(sts[i]) IN [k \in 1..Len(o) |-> o[k].Name]

OrphanNames(i) == Range(OrphanSeq(i))

ToCreateNames(i) == {toClone(sts[i])[k].Name : k \in 1..Len(toClone(sts[i]))}

(* The full names syncSource found declared when it built the statuses.    *)
DeclaredAtScan(i) ==
    LET d == SelectSeq(sts[i], LAMBDA r : r.InConfig)
    IN  [k \in 1..Len(d) |-> d[k].FullName]

Tried(i) == {n \in LocalNames : <<i, n>> \in rmTried}

Removed(i) == {n \in LocalNames : <<i, n>> \in rmOk}

Gone(i) == {n \in LocalNames : <<i, n>> \in gone}

Called(i) == {n \in LocalNames : <<i, n>> \in cloneCalls}

(* The entries of root i that were there when the run started, are not     *)
(* there now, and were not deleted by someone else.                        *)
Vanished(i) ==
    {n \in LocalNames : /\ roots0[i].entries[n] # "absent"
                        /\ roots[i].entries[n] = "absent"
                        /\ n \notin Gone(i)}

(* C11: syncSource removes no orphan directory unless the action is prune  *)
(* and the force flag is set or the confirmation prompt returned yes; when *)
(* the confirmation is declined or fails, or the run is a dry run, no      *)
(* directory of that source is removed.                                    *)
C11_NoRemovalWithoutConsent ==
    \A i \in SrcIdx :
        /\ Tried(i) \subseteq OrphanNames(i)
        /\ Vanished(i) \subseteq Removed(i)
        /\ Removed(i) \subseteq Tried(i)
        /\ Tried(i) # {} =>
              /\ act[i] = "prune"
              /\ opts.Force \/ <<i, "prune", "yes">> \in asked
        /\ (\/ opts.DryRun
            \/ <<i, "prune", "no">> \in asked
            \/ <<i, "prune", "err">> \in asked) =>
              /\ Tried(i) = {}
              /\ Vanished(i) = {}
              /\ result[i].Pruned = 0

C11_Witness ==
    \E i \in SrcIdx :
        /\ ~opts.Force
        /\ <<i, "prune", "yes">> \in asked
        /\ roots0[i].entries["z"] = "repo"
        /\ roots[i].entries["z"] = "absent"
        /\ "z" \in Removed(i)
        /\ result[i].Pruned >= 1

(* C12: when the removal of one orphan fails during prune, the removal of  *)
(* every other orphan is still attempted, the cloning of the to-create     *)
(* repositories follows, and Pruned is the number of orphans whose removal *)
(* succeeded.                                                              *)
C12_RemovalFailureIsolated ==
    \A i \in SrcIdx :
        Tried(i) # {} =>
            /\ Tried(i) = OrphanNames(i)
            /\ result[i].Pruned = Cardinality(Removed(i))
            /\ outcome[i] \in {"pending", "synced"}
            /\ outcome[i] = "synced" =>
                  /\ ToCreateNames(i) \subseteq Called(i)
                  /\ total.Pruned >= result[i].Pruned

C12_Witness ==
    \E i \in SrcIdx :
        /\ OrphanNames(i) = {"y", "z"}
        /\ Tried(i) = {"y", "z"}
        /\ Cardinality(Removed(i)) = 1
        /\ result[i].Pruned = 1
        /\ outcome[i] = "synced"
        /\ "x" \in Called(i)

(* C13 as stated: during prune with force, the removal of an orphan whose  *)
(* path no longer exists at removal time is reported as a failure and is   *)
(* not counted in Pruned.                                                  *)
C13_MissingPathIsFailure ==
    opts.Force =>
        \A i \in SrcIdx :
            /\ Gone(i) \cap Removed(i) = {}
            /\ Tried(i) # {} => result[i].Pruned = Cardinality(Removed(i) \ Gone(i))

(* C13: during prune with force, an orphan whose path exists and whose     *)
(* removal returns no error is removed and counted; the removal of an      *)
(* orphan whose path no longer exists returns no error either, so it is    *)
(* counted in Pruned as well; in both cases the loop goes on to the        *)
(* remaining orphans.                                                      *)
C13_MissingPathCountsAsRemoved ==
    opts.Force =>
        \A i \in SrcIdx :
            Tried(i) # {} =>
                /\ Tried(i) = OrphanNames(i)
                /\ Gone(i) \subseteq Removed(i)
                /\ \A n \in Removed(i) : roots[i].entries[n] = "absent"
                /\ \A n \in Tried(i) \ Removed(i) :
                      roots[i].entries[n] = roots0[i].entries[n]
                /\ result[i].Pruned = Cardinality(Removed(i))

C13_Witness ==
    \E i \in SrcIdx :
        /\ opts.Force
        /\ Gone(i) = {"z"}
        /\ Tried(i) = {"y", "z"}
        /\ Removed(i) = {"y", "z"}
        /\ roots[i].entries["y"] = "absent"
        /\ result[i].Pruned = 2

(* C14: after the add action over the orphan list O the source's Repos is  *)
(* its previous list followed by owner/basename for each orphan of O in    *)
(* order, owner being all of the Source field after the host (also when it *)
(* has several segments); Added = |O|; the configuration is saved once.    *)
C14_AddAppendsOwnerBasename ==
    \A i \in 1..Len(cfg) :
        act[i] = "add" =>
            /\ cfg[i].Repos =
                  DeclaredAtScan(i) \o
                  [k \in 1..Len(OrphanSeq(i)) |->
                      GetUserOrOrg(cfg[i].Source) \o <<OrphanSeq(i)[k]>>]
            /\ result[i].Added = Len(OrphanSeq(i))
            /\ saves = 1

(* The resolved list of source i: what the strategy switch may leave in    *)
(* its Repos.                                                              *)
ResolvedLists(i) ==
    {doc[i].Repos} \cup
    {ResolveStrategy(doc[i], fetched).Repos : fetched \in FetchOutcomes(doc[i])}

(* The roots as they were at the start, less what someone else deleted.    *)
RootsLessGone ==
    [i \in SrcIdx |->
        [roots0[i] EXCEPT !.entries =
            [n \in LocalNames |-> IF n \in Gone(i) THEN "absent" ELSE @[n]]]]

C16_SkipLeavesOrphans ==
    ~opts.DryRun =>
        \A i \in SrcIdx :
            (act[i] = "skip" \/ <<i, "prune", "no">> \in asked) =>
                /\ Tried(i) = {}
                /\ \A n \in OrphanNames(i) :
                      roots[i].entries[n] = RootsLessGone[i].entries[n]
                /\ cfg[i].Repos = DeclaredAtScan(i)
                /\ cfgFile = doc
                /\ saves = 0
                /\ outcome[i] \in {"pending", "synced"}
                /\ outcome[i] = "synced" =>
                      /\ ToCreateNames(i) \subseteq Called(i)
                      /\ result[i].Pruned = 0 /\ result[i].Added = 0

C16_Witness ==
    \E i \in SrcIdx :
        /\ ~opts.DryRun
        /\ <<i, "prune", "no">> \in asked
        /\ OrphanNames(i) = {"y", "z"}
        /\ roots[i].entries["y"] = "repo"
        /\ roots[i].entries["z"] = "repo"
        /\ outcome[i] = "synced"
        /\ "x" \in Called(i)
        /\ result[i].Cloned = 1

(* The entries the add action appended to source i.                        *)
AddedEntries(i) ==
    IF act[i] = "add"
       THEN [k \in 1..Len(OrphanSeq(i)) |-> guessFullName(doc[i].Source, OrphanSeq(i)[k])]
       ELSE <<>>

(* C17: during a sync pass only the add action modifies a source's Repos:  *)
(* the strategy switch leaves it as loaded (the names enumerated for all / *)
(* regex are not written into the source), so a saved configuration holds, *)
(* for every source, the entries declared at load time plus the added      *)
(* orphans and nothing else.                                               *)
C17_OnlyAddModifiesRepos ==
    /\ \A i \in 1..Len(cfg) : cfg[i].Repos = doc[i].Repos \o AddedEntries(i)
    /\ \A i \in 1..Len(cfgFile) : cfgFile[i].Repos \in {doc[i].Repos,
                                                         doc[i].Repos \o AddedEntries(i)}

(* sync.go:431-433: for every job it takes, a clone worker calls           *)
(* job.source.GetRepoURL, GetBranch and GetPrivateKey; the number of times *)
(* the worker of job j has read the source.                                *)
SourceReads(j) == IF kind = "clone" THEN calls[j] ELSE 0

(* The worker goroutines that exist.                                       *)
WorkersAlive == idle + Cardinality(running)

(* A step that writes the configuration: a field of a source in memory, or *)
(* the configuration file.                                                 *)
ConfigWritten == cfg' # cfg \/ cfgFile' # cfgFile \/ saves' # saves

(* C18 as stated: workers never access the source configuration object,   *)
(* and no configuration field is written while a worker is running.        *)
C18_WorkersNeverAccessSource ==
    /\ [](\A j \in JobIds : SourceReads(j) = 0)
    /\ [][ConfigWritten => WorkersAlive = 0]_vars

(* C18: the clone workers read the source configuration object and never   *)
(* write it: the configuration is written only in steps taken while no     *)
(* worker exists, so each write (strategy resolution, the add append, the  *)
(* save) is complete before the workers of that source are started, and    *)
(* no worker is left when the next source is handled.                      *)
C18_NoWriteWhileWorkersRun ==
    [][ConfigWritten => (WorkersAlive = 0 /\ WorkersAlive' = 0)]_vars

C18_Witness ==
    /\ cur \in SrcIdx
    /\ spc = "cloning"
    /\ act[cur] = "add"
    /\ saves = 1
    /\ cfg[cur].Repos # doc[cur].Repos
    /\ running # {}
    /\ \E j \in running : SourceReads(j) = 1

(* How an iteration of Run ends for a source that failed.                  *)
FailureKinds == {"fetch", "pattern", "unsupported", "scan", "prompt", "mkdir"}

(* The sum of the results of the first n sources that did not fail.        *)
RECURSIVE SumResults(_)
SumResults(n) ==
    IF n = 0 THEN ZeroResult
    ELSE AddResults(SumResults(n - 1),
                    IF outcome[n] \in FailureKinds \cup {"pending"}
                       THEN ZeroResult ELSE result[n])

(* C19: in Run a failure local to one source (enumeration failure, bad     *)
(* pattern, unsupported strategy, scan, directory or prompt error) skips   *)
(* that source only: every other source is still reconciled and synced,    *)
(* its counts are in the totals, and Run returns no error.                 *)
C19_SourceFailureIsLocal ==
    /\ Validate(doc) = "none" => runErr = "none"
    /\ total = SumResults(Len(doc))
    /\ (spc = "exit" /\ Validate(doc) = "none") =>
          /\ \A i \in SrcIdx : outcome[i] # "pending"
          /\ \A i, k \in SrcIdx :
                (/\ outcome[i] \in FailureKinds
                 /\ k # i
                 /\ doc[k] = WithPath(Plain, k)
                 /\ roots0[k] = EmptyRoot) =>
                    /\ outcome[k] = "synced"
                    /\ ToCreateNames(k) = {"x"}
                    /\ ~opts.DryRun => /\ "x" \in Called(k)
                                       /\ result[k].Cloned <= total.Cloned

C19_Witness ==
    /\ spc = "exit"
    /\ runErr = "none"
    /\ Len(doc) = 2
    /\ outcome[1] = "fetch"
    /\ outcome[2] = "synced"
    /\ result[2].Cloned = 1
    /\ total.Cloned = 1

(* C20 as stated: a source with a malformed or missing required field is   *)
(* skipped, while every valid source of the same configuration is loaded   *)
(* and synced.                                                             *)
C20_MalformedSourceSkippedOnly ==
    spc = "exit" =>
        \A i \in SrcIdx : SourceError(doc[i]) = "none" => outcome[i] # "pending"

(* C20: a source with a malformed or missing required field makes          *)
(* Validate, and with it Load and runSync, fail for the whole              *)
(* configuration: no source is loaded or synced, nothing is changed, and   *)
(* the command returns the error.                                          *)
C20_MalformedSourceFailsLoad ==
    (\E i \in SrcIdx : SourceError(doc[i]) # "none") =>
        /\ cfg = <<>>
        /\ \A i \in SrcIdx : outcome[i] = "pending" /\ sts[i] = <<>>
        /\ roots = roots0
        /\ cfgFile = doc
        /\ asked = {}
        /\ cloneCalls = {}
        /\ epc = "nocall"
        /\ spc \in {"load", "exit"}
        /\ spc = "exit" => runErr = "invalid config"

C20_Witness ==
    /\ spc = "exit"
    /\ runErr = "invalid config"
    /\ Len(doc) = 2
    /\ \E i, k \in SrcIdx :
          /\ SourceError(doc[i]) = "none"
          /\ SourceError(doc[k]) = "name is required"

(***************************************************************************)
(* Claims about enumeration.                                               *)
(***************************************************************************)

(* The names of the server's repositories, in listing order.               *)
Positions == [i \in 1..Len(server) |-> i]

(* The repositories the provider reports as neither archived nor empty or  *)
(* disabled, in listing order.                                             *)
SyncableNames == SelectSeq(Positions, LAMBDA i : server[i] = "ok")

ListRequests == SelectSeq(reqs, LAMBDA r : r.kind = "list")

DisambRequests == SelectSeq(reqs, LAMBDA r : r.kind = "disamb")

(* A request that failed: a page request that was not answered with a      *)
(* page, or any request the transport did not deliver.                     *)
FailedRequest(r) == (r.kind = "list" /\ r.answer # "ok") \/ r.answer = "transport"

(* C21: whatever pages the server holds and whatever mix of archived or    *)
(* empty and syncable repositories each page holds, a ListRepos that       *)
(* returns without error returns, in page order, the name of every         *)
(* syncable repository of every page: none is missing.                     *)
C21_EverySyncableRepoListed ==
    listed.state = "ok" =>
        SelectSeq(listed.names, LAMBDA i : server[i] = "ok") = SyncableNames

(* C22: no name ListRepos returns belongs to a repository that the         *)
(* provider reports as archived, empty or disabled, for every connector.   *)
C22_NoArchivedNameListed ==
    listed.state = "ok" =>
        \A k \in 1..Len(listed.names) : server[listed.names[k]] = "ok"

(* C23 as stated: every connector issues a disambiguation request before   *)
(* any listing request, and for an owner the server knows neither as a     *)
(* user nor as an organization ListRepos fails with a not-found error      *)
(* without a listing request.                                              *)
C23_EveryConnectorDisambiguates ==
    /\ \A k \in 1..Len(reqs) :
          reqs[k].kind = "list" => \E j \in 1..(k - 1) : reqs[j].kind = "disamb"
    /\ (/\ ownerKind = "unknown"
        /\ made
        /\ fpc = "done"
        /\ \A k \in 1..Len(reqs) : reqs[k].answer \in {"ok", "notfound"}) =>
          /\ ferr.kind = "notfound"
          /\ ListRequests = <<>>

(* C23: the GitHub and Gitea connectors issue a disambiguation request     *)
(* before any listing request, list through the endpoint of what the owner *)
(* is, and fail with a not-found error and without a listing request when  *)
(* the server knows the owner neither as a user nor as an organization.    *)
(* The Bitbucket connectors issue no disambiguation request: for an        *)
(* unknown owner their first listing request fails and ListRepos returns   *)
(* that error.  In every case the source is not resolved and its list is   *)
(* left as it was.                                                         *)
C23_GitHubAndGiteaDisambiguate ==
    /\ conn \in {"github", "gitea"} =>
          /\ reqs # <<>> => reqs[1].kind = "disamb"
          /\ \A k \in 1..Len(reqs) :
                reqs[k].kind = "list" =>
                   /\ \E j \in 1..(k - 1) : reqs[j].kind = "disamb"
                   /\ ownerKind \in {"user", "org"} =>
                         reqs[k].endpoint = (IF ownerKind = "org" THEN "orgs" ELSE "users")
          /\ ferr.kind = "notfound" =>
                /\ ownerKind = "unknown"
                /\ ListRequests = <<>>
                /\ reqs[Len(reqs)].answer = "notfound"
          /\ (/\ ownerKind = "unknown"
              /\ fpc = "done"
              /\ made
              /\ \A k \in 1..Len(reqs) : reqs[k].answer \in {"ok", "notfound"}) =>
                /\ ferr.kind = "notfound"
                /\ ListRequests = <<>>
                /\ Len(reqs) = (IF conn = "gitea" THEN 2 ELSE 1)
    /\ conn \in {"bbcloud", "bbserver"} =>
          /\ DisambRequests = <<>>
          /\ (ownerKind = "unknown" /\ fpc = "done" /\ made) =>
                /\ Len(reqs) = 1
                /\ reqs[1].kind = "list"
                /\ reqs[1].answer # "ok"
                /\ ferr.kind = "request"
    /\ (ownerKind = "unknown" /\ fpc = "done") =>
          /\ fout = (IF caller = "Run" THEN "skipped" ELSE "error")
          /\ listed.names = <<>>
          /\ fsrc.Repos = <<>>

C23_Witness ==
    /\ fpc = "done"
    /\ conn = "gitea"
    /\ ownerKind = "unknown"
    /\ caller = "Run"
    /\ ferr.kind = "notfound"
    /\ Len(reqs) = 2
    /\ fout = "skipped"

(* C24: when a request of an enumeration fails, at whatever page, no       *)
(* further request is made and none is repeated, ListRepos returns an      *)
(* error and no names at all (the names of the pages before are            *)
(* discarded), and the source is given up: its list is not replaced by a   *)
(* partial one.                                                            *)
C24_NoPartialResult ==
    /\ \A j, k \in 1..Len(reqs) :
          (/\ reqs[j].kind = reqs[k].kind
           /\ reqs[j].endpoint = reqs[k].endpoint
           /\ reqs[j].page = reqs[k].page) => j = k
    /\ \A k \in 1..Len(reqs) :
          FailedRequest(reqs[k]) =>
             /\ k = Len(reqs)
             /\ fpc = "done"
             /\ listed = [state |-> "error", names |-> <<>>]
             /\ ferr.kind = "request"
             /\ fout = (IF caller = "Run" THEN "skipped" ELSE "error")
             /\ fsrc.Repos = <<>>

C24_Witness ==
    /\ fpc = "done"
    /\ Len(ListRequests) >= 2
    /\ FailedRequest(reqs[Len(reqs)])
    /\ allRepos # <<>>
    /\ listed.names = <<>>
    /\ fout = "skipped"

C26_MissingTokenFailsFast ==
    /\ ~token =>
          /\ reqs = <<>>
          /\ ~made
          /\ listed = NotCalled
          /\ fpc \in {"done", "begin", "idle"}
          /\ fpc = "done" =>
                /\ ferr.kind = "notoken"
                /\ ferr.detail = (CASE conn = "github" -> "GITHUB_TOKEN"
                                    [] conn = "gitea" -> "GITEA_TOKEN"
                                    [] conn \in {"bbcloud", "bbserver"} -> "BITBUCKET_TOKEN")
                /\ fout = (IF caller = "Run" THEN "skipped" ELSE "error")
                /\ fsrc.Repos = <<>>
    /\ ferr.kind = "notoken" => ~token

C26_Witness ==
    /\ fpc = "done"
    /\ ~token
    /\ conn = "bbserver"
    /\ ownerKind = "org"
    /\ server # <<>>
    /\ ferr = [kind |-> "notoken", detail |-> "BITBUCKET_TOKEN"]
    /\ fout = "skipped"

(***************************************************************************)
(* Claims about the strategy switch, the progress and the error report of  *)
(* the engine, and the sources of a loaded configuration.                  *)
(***************************************************************************)

(* C27: a source of strategy file is given up with the unsupported         *)
(* strategy warning: it is never reconciled (no status list is built for   *)
(* it, against an empty list or any other), so none of its local           *)
(* repositories is classified, pruned or added, nothing is cloned for it,  *)
(* and neither its local root nor its entry list changes.                  *)
C27_FileStrategySkipped ==
    \A i \in 1..Len(cfg) :
        cfg[i].Strategy = "file" =>
            /\ outcome[i] \in {"pending", "unsupported"}
            /\ (i < cur \/ spc = "exit") => outcome[i] = "unsupported"
            /\ sts[i] = <<>>
            /\ act[i] = "none"
            /\ Tried(i) = {}
            /\ Called(i) = {}
            /\ \A q \in asked : q[1] # i
            /\ result[i] = ZeroResult
            /\ roots[i] = roots0[i]
            /\ cfg[i].Repos = doc[i].Repos
            /\ cfgFile[i].Repos = doc[i].Repos

C27_Witness ==
    /\ spc = "exit"
    /\ runErr = "none"
    /\ opts.Prune
    /\ opts.Force
    /\ ~opts.DryRun
    /\ Len(cfg) = 2
    /\ cfg[1].Strategy = "file"
    /\ outcome[1] = "unsupported"
    /\ roots[1].entries["z"] = "repo"
    /\ outcome[2] = "synced"
    /\ total.Cloned = 1

(* C28: the progress counter is incremented exactly once for every outcome *)
(* the collector receives: after k outcomes it is k, it never exceeds the  *)
(* number N of jobs, and it is N when the loop has ended and Finish is     *)
(* called.                                                                 *)
C28_OneSignalPerOutcome ==
    /\ completed = Cardinality(seen)
    /\ completed = cloned + Len(errors)
    /\ completed <= njobs
    /\ epc = "returned" => completed = njobs

C28_Witness ==
    /\ epc = "returned"
    /\ njobs = 2
    /\ completed = 2
    /\ Len(errors) = 1
    /\ cloned = 1

(* sync.go:417-419 / 721-723: the failures ui.Error has reported, in the   *)
(* order of the report; the loop runs after progress.Finish().             *)
Reported == IF epc = "returned" THEN errors ELSE <<>>

(* C29: clone and pull failures are reported only after the batch is       *)
(* complete: when a failure is reported all N outcomes have been collected *)
(* and every worker has finished; each failed job is reported exactly      *)
(* once, and no job that succeeded is reported.                            *)
C29_FailuresReportedAfterBatch ==
    /\ Reported # <<>> =>
          /\ \A j \in Submitted : outcomes[j] = 1
          /\ completed = njobs
          /\ results = <<>>
          /\ running = {}
          /\ idle = 0
          /\ exited = numWorkers
    /\ epc = "returned" =>
          \A j \in Submitted :
             Cardinality({k \in 1..Len(Reported) : Reported[k].name = j})
                = (IF opErr[j] = "ok" THEN 0 ELSE 1)

C29_Witness ==
    /\ epc = "returned"
    /\ njobs = 3
    /\ Len(Reported) = 2
    /\ numWorkers = 2
    /\ exited = 2

(* C30: every source of the configuration Load returned has, after the     *)
(* expansion of its paths and at every later point of the sync pass, a     *)
(* name and a local_path that are not empty, an entry list that is not     *)
(* empty if its strategy is manual, and a pattern that compiles if its     *)
(* strategy is regex.                                                      *)
C30_LoadedSourcesWellFormed ==
    \A i \in 1..Len(cfg) :
        /\ cfg[i].Name # ""
        /\ cfg[i].LocalPath # <<>>
        /\ cfg[i].Strategy = "manual" => cfg[i].Repos # <<>>
        /\ cfg[i].Strategy = "regex" => Compiles(cfg[i].Pattern)

(***************************************************************************)
(* Claims about the queues of the engine                                   *)
(***************************************************************************)

(* The main goroutine is at the send statement of the "Send jobs" loop.    *)
AtSendJob == epc = "spawn" /\ spawned = numWorkers /\ sent < njobs

(* C39: the results queue is closed at most once, and only when every      *)
(* worker has sent its last outcome and exited, so no outcome is sent on a *)
(* closed queue; the jobs queue and the results queue never hold more than *)
(* N items, a job is never enqueued on a full jobs queue and an outcome is *)
(* never sent on a full results queue; at the return of the engine the     *)
(* results queue has been closed exactly once.                             *)
C39_QueuesClosedOnceNeverBlock ==
    /\ resultsClosed <= 1
    /\ resultsClosed = 1 =>
          /\ running = {}
          /\ idle = 0
          /\ exited = numWorkers
          /\ jobsClosed
          /\ jobsChan = <<>>
    /\ Len(jobsChan) <= njobs
    /\ Len(results) <= njobs
    /\ AtSendJob => Len(jobsChan) < njobs
    /\ running # {} => Len(results) < njobs /\ resultsClosed = 0
    /\ epc = "returned" => resultsClosed = 1

C39_Witness ==
    /\ resultsClosed = 1
    /\ njobs = MaxLiveJobs
    /\ numWorkers >= 2
    /\ exited = numWorkers
    /\ Len(results) >= 2

(***************************************************************************)
(* Claims about the orphan action                                          *)
(***************************************************************************)

(* The answers the action prompt gave for source i.                        *)
ActionPrompts(i) == {a \in asked : a[1] = i /\ a[2] = "action"}

(* C40: at most one orphan action is executed per source per pass:         *)
(* directories are removed only under the action prune and entries are     *)
(* appended only under the action add, never both for one source; with     *)
(* both the prune flag and the add flag set the action is prune, no entry  *)
(* is appended and the configuration is not saved; with the prune flag or  *)
(* the add flag set the action prompt is never shown.                      *)
C40_OneOrphanActionPerSource ==
    \A i \in SrcIdx :
        /\ Tried(i) # {} => act[i] = "prune"
        /\ result[i].Added > 0 => act[i] = "add"
        /\ (sts[i] # <<>> /\ cfg[i].Repos # DeclaredAtScan(i)) => act[i] = "add"
        /\ ~(Tried(i) # {} /\ result[i].Added > 0)
        /\ (opts.Prune /\ opts.Add) =>
              /\ act[i] \in {"none", "skip", "prune"}
              /\ result[i].Added = 0
              /\ sts[i] # <<>> => cfg[i].Repos = DeclaredAtScan(i)
              /\ saves = 0
        /\ (opts.Prune \/ opts.Add) => ActionPrompts(i) = {}

C40_Witness ==
    \E i \in SrcIdx :
        /\ opts.Prune
        /\ opts.Add
        /\ ~opts.DryRun
        /\ act[i] = "prune"
        /\ Removed(i) # {}
        /\ result[i].Pruned > 0
        /\ cfg[i].Repos = DeclaredAtScan(i)
        /\ spc = "exit"

(***************************************************************************)
(* Claims about the paths prune removes                                    *)
(***************************************************************************)

(* The basenames of the entries of the list source i was synced with.      *)
DeclaredNamesOf(i) ==
    {repoNameFromFullName(DeclaredAtScan(i)[k]) : k \in 1..Len(DeclaredAtScan(i))}

(* The paths os.RemoveAll was called with for source i.                    *)
PrunedPaths(i) ==
    {sts[i][k].LocalPath : k \in {j \in 1..Len(sts[i]) :
                                     /\ sts[i][j].Status = StatusRemoved
                                     /\ sts[i][j].Name \in Tried(i)}}

(* C35: every path prune removes is local_root/basename for a basename     *)
(* that the local scan reported as a repository and that is not the        *)
(* basename of an entry of the source's resolved list; the directory of a  *)
(* declared repository, unchanged or to create, is never removed, and      *)
(* nothing but an immediate child of the source's local root is removed.   *)
C35_PruneRemovesOnlyOrphans ==
    \A i \in SrcIdx :
        /\ \A n \in Tried(i) :
              /\ IsGitRepo(roots0[i].entries[n])
              /\ ~HasDotPrefix(n)
              /\ n \notin DeclaredNamesOf(i)
              /\ \A k \in 1..Len(cfg[i].Repos) :
                    repoNameFromFullName(cfg[i].Repos[k]) # n
        /\ PrunedPaths(i) = {JoinPath(cfg[i].LocalPath, n) : n \in Tried(i)}
        /\ \A n \in DeclaredNamesOf(i) : n \notin Vanished(i)
        /\ Vanished(i) \subseteq Tried(i)

C35_Witness ==
    \E i \in SrcIdx :
        /\ Tried(i) = {"z"}
        /\ Removed(i) = {"z"}
        /\ roots[i].entries["z"] = "absent"
        /\ "x" \in DeclaredNamesOf(i)
        /\ roots[i].entries["x"] = "repo"
        /\ "y" \in DeclaredNamesOf(i)
        /\ roots0[i].entries["y"] = "absent"
        /\ spc = "exit"

(***************************************************************************)
(* Claims about the targets of one batch                                   *)
(***************************************************************************)

(* sync.go:344-361 and 390-392: the jobs of the batch syncSource hands to  *)
(* cloneReposParallel, one for each status to create, in status order.     *)
CloneJobs == toClone(statuses)

(* C33: within one cloneReposParallel batch no two jobs have the same      *)
(* target local path, for every declared list, a list that repeats a full  *)
(* name or holds two full names with the same basename included.           *)
C33_DistinctCloneTargets ==
    (via = "sync" /\ Computed(1)) =>
        \A i, j \in 1..Len(CloneJobs) :
            CloneJobs[i].LocalPath = CloneJobs[j].LocalPath => i = j

(***************************************************************************)
(* Claims about a second sync pass                                         *)
(***************************************************************************)

(* The source i of a second `ag sync` over the file as it is now: Load     *)
(* reads and expands the saved file, and the strategy switch of Run        *)
(* resolves the list against the same remote (sync.go:63-99).              *)
SecondPassSource(i) ==
    LET reread == ExpandPaths(cfgFile)[i]
        fetched == [ok |-> TRUE,
                    repos |-> IF reread.Strategy \in {"all", "regex"}
                                 THEN SyncRemote ELSE <<>>]
    IN  [reread EXCEPT !.Repos = ResolveStrategy(reread, fetched).Repos]

(* The status lists syncSource may build for source i in that second pass  *)
(* over the local root as it is now (sync.go:190-239).                     *)
SecondPassStatuses(i) ==
    LET scan == scanLocalRepos(roots[i])
    IN  {BuildStatuses(SecondPassSource(i), scan.repos, iter) :
            iter \in Orderings(scan.repos)}

(* The pass is over, it added the orphans of source i and the save wrote   *)
(* the file.                                                               *)
AddedAndSaved(i) ==
    /\ spc = "exit"
    /\ act[i] = "add"
    /\ OrphanNames(i) # {}
    /\ cfgFile[i].Repos = cfg[i].Repos

(* C36: the add disposition is durable: after a pass that added the        *)
(* orphans of a source and saved the configuration, a second pass over the *)
(* same local root and the same remote classifies every basename that was  *)
(* an orphan as unchanged, whatever the strategy of the source.            *)
C36_AddIsDurable ==
    \A i \in SrcIdx :
        AddedAndSaved(i) =>
            \A st \in SecondPassStatuses(i) :
            \A n \in OrphanNames(i) \cap scanLocalRepos(roots[i]).repos :
                /\ \E k \in 1..Len(st) : st[k].Name = n
                /\ \A k \in 1..Len(st) :
                      st[k].Name = n => st[k].Status = StatusUnchanged

(* C34: in RunPull every local repository path appears in at most one pull *)
(* job of the batch, for every configuration, two sources with the same    *)
(* local_path included.                                                    *)
C34_DistinctPullPaths ==
    pullPc = "batch" =>
        \A i, j \in 1..Len(allJobs) : allJobs[i].path = allJobs[j].path => i = j

(***************************************************************************)
(* Claims about Load and Save                                              *)
(***************************************************************************)

(* The names of the sources of a configuration, in order.                  *)
SourceNames(c) == [i \in 1..Len(c) |-> c[i].Name]

(* C32: loading a local configuration requires the main file: when it is   *)
(* missing Load fails, whatever the sources.d directory next to it holds.  *)
C32_MissingMainFileFails ==
    (loadPc = "loaded" /\ mainFile.st = "missing") => loaded.err # "none"

(* C37: saving and reloading is a round trip on the source list: after a   *)
(* Load that succeeded and a Save that succeeded, the second Load succeeds *)
(* and returns sources with the same names in the same order, whatever     *)
(* sources.d contributes.                                                  *)
C37_SaveLoadRoundTrip ==
    (loadPc = "reloaded" /\ loaded.err = "none" /\ saveErr = "none") =>
        /\ reloaded.err = "none"
        /\ SourceNames(reloaded.Sources) = SourceNames(loaded.Sources)

(***************************************************************************)
(* Claims about the local path of an entry                                 *)
(***************************************************************************)

(* C31: the local path of a declared entry, in its status and in its clone *)
(* job, is the override of the entry when it has one and                   *)
(* root/basename(full name) otherwise; an entry with an override exists    *)
(* locally exactly when its override path holds a repository.              *)
C31_ResolvedLocalPathUsed ==
    /\ entryPc \in {"clone", "done"} =>
          \A i \in 1..Len(entrySrc.Repos) :
             LET r == entrySrc.Repos[i]
             IN  /\ entrySts[i].LocalPath = ResolvedLocalPath(r, entrySrc.LocalPath)
                 /\ r.LocalPath # <<>> =>
                       entrySts[i].ExistsLocal = (r.LocalPath \in entryElse)
    /\ entryPc = "done" =>
          \A k \in 1..Len(entryJobs) :
             \E i \in 1..Len(entrySrc.Repos) :
                 entryJobs[k] = ResolvedLocalPath(entrySrc.Repos[i], entrySrc.LocalPath)

(***************************************************************************)
(* Claims about the end of enumeration                                     *)
(***************************************************************************)

(* C38: enumeration terminates: against a server that answers every        *)
(* request and holds finitely many repositories, ListRepos of every        *)
(* connector returns after finitely many requests, whatever the server     *)
(* puts in its paging fields.                                              *)
C38_EnumerationTerminates == <>(pgPc = "done")

====
